---- MODULE Spec2Model ----
(***************************************************************************)
(* A model of the RAG chatbot backend: the ingestion side of               *)
(* backend/ingest.py (WebExtractor, ContentParser) and the query side of   *)
(* backend/main.py (RAGAgent.generate_response and the session store).     *)
(*                                                                         *)
(* Text is modelled as a sequence of tokens: a URL such as                 *)
(* https://site/docs/a is <<"https", ":", "//", "site", "/", "docs", "/",  *)
(* "a">>.  The string operations of the code (startswith, in, lower,       *)
(* split, join, urljoin) are computed on these sequences; the tokens are   *)
(* cut so that every pattern the code looks for begins and ends at a token *)
(* boundary.                                                               *)
(***************************************************************************)
EXTENDS Integers, Sequences, FiniteSets, TLC

VARIABLES
    \* ---- WebExtractor.extract_all_pages (ingest.py) ----
    base_url,        \* self.base_url, the seed
    visited,         \* the set visited
    pages,           \* the list pages
    urls_to_visit,   \* the FIFO list urls_to_visit
    crawl_pc,        \* "idle" | "loop" | "done" | "raised"
    site,            \* the web site: what a fetch of a URL returns, fixed at its first fetch
    fetched,         \* history: the URLs get_page_content was called with, in order
    discovered,      \* history: the URLs in the order they were first put on the queue
    \* ---- ContentParser.parse_content (ingest.py) ----
    doc,             \* the parsed document (soup), nodes in document order
    parse_pc,        \* "idle" | "html" | "loop" | "return" | "done"
    headers,         \* the list headers (node indexes)
    hi,              \* the loop index i over headers
    chunks,          \* the list chunks
    \* ---- main.py: the persistence store and the request handlers ----
    sessions,        \* table sessions: session_id -> [context: JSON text, or <<>> for NULL]
    chat_history,    \* table chat_history: the rows in the order of their id
    clock,           \* the database clock behind CURRENT_TIMESTAMP
    utc,             \* the clock of the server behind datetime.utcnow(): its last stored reading
    req,             \* the request handler in flight: its locals and its position
    faults,          \* how many calls of a service or of the store went wrong so far
    \* ---- main.py: RAGAgent.extract_citations, called on its own ----
    cite,            \* the server process (its hash seed), the arguments and the results
    \* ---- main.py: the request handlers of one event loop, interleaved at their awaits ----
    handlers,        \* the handlers in the order the requests arrived, the finished ones too
    \* ---- main.py and ingest.py: the start of a process ----
    boot,            \* the program, its environment, and how far its start has come
    \* ---- ingest.py: main from the embedding loop on ----
    ingest           \* chunks, all_embeddings, the points and the collection

crawlVars == <<base_url, visited, pages, urls_to_visit, crawl_pc, site, fetched, discovered>>
parseVars == <<doc, parse_pc, headers, hi, chunks>>
chatVars == <<sessions, chat_history, clock, utc, req, faults>>
citeVars == <<cite>>
concVars == <<handlers>>
bootVars == <<boot>>
ingestVars == <<ingest>>
vars == <<crawlVars, parseVars, chatVars, citeVars, concVars, bootVars, ingestVars>>

-----------------------------------------------------------------------------
(* Strings as token sequences.                                             *)

\* s.startswith(p)
StartsWith(s, p) ==
    Len(p) <= Len(s) /\ SubSeq(s, 1, Len(p)) = p

\* p in s (substring)
Contains(s, p) ==
    \E i \in 1..(Len(s) - Len(p) + 1) : SubSeq(s, i, i + Len(p) - 1) = p

\* one token of str.lower()
LowerTok(t) ==
    CASE t = "IMG" -> "img"
      [] t = ".PNG" -> ".png"
      [] t = "API" -> "api"
      [] OTHER -> t

\* str.lower()
Lower(s) == [i \in 1..Len(s) |-> LowerTok(s[i])]

RECURSIVE SplitAcc(_, _, _)
SplitAcc(s, cur, acc) ==
    IF s = <<>> THEN Append(acc, cur)
    ELSE IF Head(s) = "/" THEN SplitAcc(Tail(s), <<>>, Append(acc, cur))
    ELSE SplitAcc(Tail(s), Append(cur, Head(s)), acc)

\* s.split('/'): the list of the segments of s, each a string
SplitSlash(s) == SplitAcc(s, <<>>, <<>>)

RECURSIVE JoinSlash(_)
\* '/'.join(segs)
JoinSlash(segs) ==
    IF segs = <<>> THEN <<>>
    ELSE IF Len(segs) = 1 THEN segs[1]
    ELSE segs[1] \o <<"/">> \o JoinSlash(Tail(segs))

-----------------------------------------------------------------------------
(* urllib.parse: urlparse and urljoin, for URLs without query or fragment. *)

SchemeNames == {"https", "http", "mailto", "tel", "javascript"}
\* urllib.parse.uses_relative / uses_netloc, cut to the schemes above
UsesRelative == {"https", "http"}

HasScheme(u) == Len(u) >= 2 /\ u[1] \in SchemeNames /\ u[2] = ":"
AfterScheme(u) == IF HasScheme(u) THEN SubSeq(u, 3, Len(u)) ELSE u

RECURSIVE UpToSlash(_)
\* the longest prefix without "/"
UpToSlash(s) ==
    IF s = <<>> \/ Head(s) = "/" THEN <<>> ELSE <<Head(s)>> \o UpToSlash(Tail(s))

\* urlparse(u, default_scheme): scheme, netloc and path
urlparse(u, dflt) ==
    LET r == AfterScheme(u)
        hasNet == Len(r) >= 1 /\ r[1] = "//"
        net == IF hasNet THEN UpToSlash(Tail(r)) ELSE <<>>
        path == IF hasNet THEN SubSeq(r, 2 + Len(net), Len(r)) ELSE r
    IN [scheme |-> IF HasScheme(u) THEN u[1] ELSE dflt, netloc |-> net, path |-> path]

\* urlunparse (urlunsplit): a path that does not start with "/" gets one after a netloc
urlunparse(p) ==
    LET withNet == p.netloc # <<>>
                   \/ (p.scheme \in UsesRelative /\ ~StartsWith(p.path, <<"//">>))
        url == IF withNet
               THEN <<"//">> \o p.netloc
                    \o (IF p.path # <<>> /\ p.path[1] # "/" THEN <<"/">> ELSE <<>>)
                    \o p.path
               ELSE p.path
    IN (IF p.scheme = "" THEN <<>> ELSE <<p.scheme, ":">>) \o url

RECURSIVE FilterEmpty(_)
FilterEmpty(segs) ==
    IF segs = <<>> THEN <<>>
    ELSE IF Head(segs) = <<>> THEN FilterEmpty(Tail(segs))
    ELSE <<Head(segs)>> \o FilterEmpty(Tail(segs))

\* segments[1:-1] = filter(None, segments[1:-1])
FilterMiddle(segs) ==
    IF Len(segs) <= 2 THEN segs
    ELSE <<segs[1]>> \o FilterEmpty(SubSeq(segs, 2, Len(segs) - 1)) \o <<segs[Len(segs)]>>

RECURSIVE ResolveDots(_, _)
\* the loop of urljoin that removes "." and ".." segments
ResolveDots(segs, resolved) ==
    IF segs = <<>> THEN resolved
    ELSE IF Head(segs) = <<"..">>
         THEN ResolveDots(Tail(segs),
                          IF Len(resolved) >= 1 THEN SubSeq(resolved, 1, Len(resolved) - 1)
                          ELSE resolved)
    ELSE IF Head(segs) = <<".">> THEN ResolveDots(Tail(segs), resolved)
    ELSE ResolveDots(Tail(segs), Append(resolved, Head(segs)))

\* urljoin(base, url)
urljoin(base, url) ==
    IF url = <<>> THEN base
    ELSE
    LET b == urlparse(base, "")
        r == urlparse(url, b.scheme)
    IN  IF r.scheme # b.scheme \/ r.scheme \notin UsesRelative THEN url
        ELSE IF r.netloc # <<>> THEN urlunparse(r)
        ELSE IF r.path = <<>> THEN urlunparse([r EXCEPT !.netloc = b.netloc, !.path = b.path])
        ELSE
        LET bp == SplitSlash(b.path)
            base_parts == IF bp[Len(bp)] # <<>> THEN SubSeq(bp, 1, Len(bp) - 1) ELSE bp
            segments == IF r.path[1] = "/" THEN SplitSlash(r.path)
                        ELSE FilterMiddle(base_parts \o SplitSlash(r.path))
            res0 == ResolveDots(segments, <<>>)
            last == segments[Len(segments)]
            resolved == IF last = <<".">> \/ last = <<"..">> THEN Append(res0, <<>>) ELSE res0
            joined == JoinSlash(resolved)
        IN urlunparse([scheme |-> r.scheme, netloc |-> b.netloc,
                       path |-> IF joined = <<>> THEN <<"/">> ELSE joined])

-----------------------------------------------------------------------------
(* WebExtractor (ingest.py).                                               *)

\* the size of the site: how many anchors its pages hold together
MaxAnchors == 3

Root == <<"https", ":", "//", "site", "/">>
\* the seeds the crawl is started with
Seeds == {Root, <<"https", ":", "//", "site", "/", "api", "/">>}

\* the href values the anchors of the site are drawn from
Hrefs == {
    <<"docs", "/", "a">>,                                  \* relative, into a directory
    <<"b">>,                                               \* relative to the current page
    <<"/">>,                                               \* back to the root
    <<"IMG", ".PNG">>,                                     \* a static asset, upper case
    <<"#", "top">>,                                        \* anchor-only
    <<"https", ":", "//", "site", "/", "z">>,              \* absolute, same domain
    <<"//", "other", "/", "p">> }                          \* another host

\* an anchor of a page: its href, and whether it lies inside an element that one of
\* the sidebar selectors matches (a relative link of the sidebar)
Anchors == [href : Hrefs, nav : {FALSE}] \cup {[href |-> <<"b">>, nav |-> TRUE]}

RECURSIVE SeqsUpTo(_, _)
\* the sequences over S of length at most n
SeqsUpTo(S, n) ==
    IF n = 0 THEN {<<>>}
    ELSE LET shorter == SeqsUpTo(S, n - 1)
         IN shorter \cup {Append(q, x) : q \in {r \in shorter : Len(r) = n - 1}, x \in S}

\* what the server can answer to a GET: an error (connection error, HTTP error status),
\* an empty body, or an HTML page with its anchors
Responses ==
    {[kind |-> "error", anchors |-> <<>>], [kind |-> "empty", anchors |-> <<>>]}
    \cup [kind : {"html"}, anchors : SeqsUpTo(Anchors, MaxAnchors)]

\* get_page_content without its except clause: the RequestException propagates
get_page_content_raising(resp) ==
    IF resp.kind = "error"
    THEN [raised |-> TRUE, kind |-> "empty", anchors |-> <<>>]
    ELSE [raised |-> FALSE, kind |-> resp.kind, anchors |-> resp.anchors]

\* WebExtractor.get_page_content: the text of the response, "" after a RequestException
get_page_content(resp) ==
    IF resp.kind = "error"
    THEN [raised |-> FALSE, kind |-> "empty", anchors |-> <<>>]
    ELSE [raised |-> FALSE, kind |-> resp.kind, anchors |-> resp.anchors]

\* urls_to_visit[0] in place of pop(0): the element is read and stays on the list
PopUrlKeep(q) == [url |-> Head(q), rest |-> q]

\* urls_to_visit.pop() in place of pop(0): the last element is taken
PopUrlLast(q) == [url |-> q[Len(q)], rest |-> SubSeq(q, 1, Len(q) - 1)]

\* urls_to_visit.pop(0): the element taken and the list that is left
PopUrl(q) == [url |-> Head(q), rest |-> Tail(q)]

\* the loop without visited.add
VisitedAddNothing(vis, u) == vis

\* visited.add(current_url)
VisitedAdd(vis, u) == vis \cup {u}

\* base_domain = f"{scheme}://{netloc}" of the seed
base_domain(seed) ==
    LET p == urlparse(seed, "") IN <<p.scheme, ":", "//">> \o p.netloc

excluded_patterns == <<
    <<"/", "api", "/">>, <<".js", "on">>, <<".xml">>, <<".css">>, <<".js">>,
    <<".ico">>, <<".png">>, <<".jpg">>, <<".svg">>, <<".woff">> >>

\* should_skip = any(pattern in absolute_url.lower() for pattern in excluded_patterns)
should_skip(absolute_url) ==
    LET lowered == Lower(absolute_url)
    IN \E i \in 1..Len(excluded_patterns) : Contains(lowered, excluded_patterns[i])

\* the test that drops external links, empty hrefs and anchor-only links
SkipHref(href) ==
    \/ href = <<>>
    \/ StartsWith(href, <<"#">>)
    \/ StartsWith(href, <<"mailto", ":">>)
    \/ StartsWith(href, <<"tel", ":">>)
    \/ StartsWith(href, <<"http", ":", "//">>)
    \/ StartsWith(href, <<"https", ":", "//">>)

RECURSIVE SelectSeq2(_, _)
\* the anchors of a list that satisfy nav
SelectSeq2(as, wantNav) ==
    IF as = <<>> THEN <<>>
    ELSE (IF Head(as).nav = wantNav THEN <<Head(as)>> ELSE <<>>) \o SelectSeq2(Tail(as), wantNav)

\* links: soup.find_all('a', href=True), then once more the anchors found inside the
\* elements the sidebar selectors match
PageLinks(anchors) ==
    LET all == [i \in 1..Len(anchors) |-> anchors[i].href]
        side == SelectSeq2(anchors, TRUE)
    IN all \o [i \in 1..Len(side) |-> side[i].href]

\* urljoin(self.base_url, href): the href resolved against the seed
AbsoluteUrlOfSeed(current_url, seed, href) == urljoin(seed, href)

\* absolute_url = urljoin(current_url, href)
AbsoluteUrl(current_url, seed, href) == urljoin(current_url, href)

\* the test before urls_to_visit.append, without should_skip
ShouldFollowAssets(absolute_url, seed, vis) ==
    /\ StartsWith(absolute_url, base_domain(seed))
    /\ absolute_url \notin vis

\* the test before urls_to_visit.append
ShouldFollow(absolute_url, seed, vis) ==
    /\ StartsWith(absolute_url, base_domain(seed))
    /\ ~should_skip(absolute_url)
    /\ absolute_url \notin vis

RECURSIVE FollowLinks(_, _, _, _, _)
\* the loop over links: the queue after it
FollowLinks(links, current_url, seed, vis, queue) ==
    IF links = <<>> THEN queue
    ELSE LET href == Head(links)
             absolute_url == AbsoluteUrl(current_url, seed, href)
         IN FollowLinks(Tail(links), current_url, seed, vis,
                IF ~SkipHref(href) /\ ShouldFollow(absolute_url, seed, vis)
                THEN Append(queue, absolute_url)
                ELSE queue)

IsPage(u) == u \in DOMAIN site /\ site[u].kind = "html"

RECURSIVE SiteAnchors(_)
\* the anchors of the pages fetched so far, counted
SiteAnchors(us) ==
    IF us = {} THEN 0
    ELSE LET u == CHOOSE x \in us : TRUE
         IN Len(site[u].anchors) + SiteAnchors(us \ {u})

\* what the server answers for url: fixed once the URL was fetched; the pages of the
\* site hold at most MaxAnchors anchors together
ResponsesFor(url) ==
    IF url \in DOMAIN site THEN {site[url]}
    ELSE LET left == MaxAnchors - SiteAnchors(DOMAIN site)
         IN {r \in Responses : Len(r.anchors) <= left}

InitCrawlVars ==
    /\ base_url \in Seeds
    /\ visited = {}
    /\ pages = <<>>
    /\ urls_to_visit = <<base_url>>
    /\ crawl_pc = "loop"
    /\ site = <<>>
    /\ fetched = <<>>
    /\ discovered = <<base_url>>

IdleCrawlVars ==
    /\ base_url = <<>>
    /\ visited = {}
    /\ pages = <<>>
    /\ urls_to_visit = <<>>
    /\ crawl_pc = "idle"
    /\ site = <<>>
    /\ fetched = <<>>
    /\ discovered = <<>>

RECURSIVE FirstSeen(_, _)
\* history: seen, with the URLs of added it does not hold yet
FirstSeen(seen, added) ==
    IF added = <<>> THEN seen
    ELSE FirstSeen(IF \E i \in 1..Len(seen) : seen[i] = Head(added) THEN seen
                   ELSE Append(seen, Head(added)),
                   Tail(added))

\* one iteration of the while loop whose URL was visited before: continue
CrawlSkipVisited ==
    /\ crawl_pc = "loop"
    /\ urls_to_visit # <<>>
    /\ PopUrl(urls_to_visit).url \in visited
    /\ urls_to_visit' = PopUrl(urls_to_visit).rest
    /\ UNCHANGED <<base_url, visited, pages, crawl_pc, site, fetched, discovered>>

\* one iteration of the while loop that fetches its URL
CrawlFetch ==
    /\ crawl_pc = "loop"
    /\ urls_to_visit # <<>>
    /\ LET current_url == PopUrl(urls_to_visit).url
           rest == PopUrl(urls_to_visit).rest
       IN
       /\ current_url \notin visited
       /\ \E resp \in ResponsesFor(current_url) :
            LET content == get_page_content(resp) IN
            /\ site' = IF current_url \in DOMAIN site THEN site
                       ELSE [u \in DOMAIN site \cup {current_url} |->
                                IF u = current_url THEN resp ELSE site[u]]
            /\ fetched' = Append(fetched, current_url)
            /\ visited' = VisitedAdd(visited, current_url)
            /\ IF content.raised
               THEN \* an exception get_page_content does not catch ends extract_all_pages
                    /\ crawl_pc' = "raised"
                    /\ urls_to_visit' = rest
                    /\ UNCHANGED <<pages, discovered>>
               ELSE IF content.kind = "empty"
               THEN \* if not content: continue
                    /\ urls_to_visit' = rest
                    /\ UNCHANGED <<pages, crawl_pc, discovered>>
               ELSE /\ pages' = Append(pages, [url |-> current_url, html |-> content.anchors])
                    /\ urls_to_visit' = FollowLinks(PageLinks(content.anchors), current_url,
                                                    base_url, visited', rest)
                    /\ discovered' = FirstSeen(discovered,
                            SubSeq(urls_to_visit', Len(rest) + 1, Len(urls_to_visit')))
                    /\ UNCHANGED crawl_pc
    /\ UNCHANGED base_url

\* the loop ends: return pages
CrawlReturn ==
    /\ crawl_pc = "loop"
    /\ urls_to_visit = <<>>
    /\ crawl_pc' = "done"
    /\ UNCHANGED <<base_url, visited, pages, urls_to_visit, site, fetched, discovered>>

-----------------------------------------------------------------------------
(* ContentParser.parse_content (ingest.py).                                *)
(*                                                                         *)
(* The document is the list of its nodes in document order.  A node has a  *)
(* tag ("#text" for a string), the index of its parent (0: the document)   *)
(* and word: for a string, whether it holds a word (FALSE: white space     *)
(* only); for an element, whether its first child is a string with a word. *)
(* The word of node i is the token ToString(i), so every word of a page is *)
(* told apart.  BeautifulSoup joins the strings with " " and strips them;  *)
(* a text is the list of its words.                                        *)

\* how many nodes a document holds
MaxNodes == 4

HeadingTags == {"h1", "h2", "h3"}

\* the nodes the documents with headers are built from: tag and word
NodeKinds == {
    [tag |-> "h1", word |-> TRUE], [tag |-> "h1", word |-> FALSE],
    [tag |-> "h2", word |-> TRUE],
    [tag |-> "div", word |-> FALSE], [tag |-> "script", word |-> TRUE],
    [tag |-> "#text", word |-> TRUE], [tag |-> "#text", word |-> FALSE] }

\* the nodes the documents without h1/h2/h3 are built from
PlainKinds == {
    [tag |-> "h4", word |-> TRUE],
    [tag |-> "div", word |-> FALSE], [tag |-> "script", word |-> TRUE],
    [tag |-> "#text", word |-> TRUE], [tag |-> "#text", word |-> FALSE] }

RECURSIVE AncestorsOrSelf(_, _)
\* node i and its ancestors in document d
AncestorsOrSelf(d, i) == IF i = 0 THEN {} ELSE {i} \cup AncestorsOrSelf(d, d[i].parent)

\* the children of p in d, in document order (p = 0: the top-level nodes)
Children(d, p) == {j \in 1..Len(d) : d[j].parent = p}

\* the nodes that can follow document d: under the document or under an element
\* that is still open
NextNodes(kinds, d) ==
    {[tag |-> k.tag, word |-> k.word, parent |-> p] :
        k \in kinds,
        p \in {0} \cup (IF d = <<>> THEN {} ELSE AncestorsOrSelf(d, Len(d)))} 

\* only a div holds other nodes (a heading or a script holds its string only), and
\* two strings never follow each other
WellPlaced(d, n) ==
    /\ IF n.parent = 0 THEN TRUE ELSE d[n.parent].tag = "div"
    /\ IF n.tag # "#text" THEN TRUE
       ELSE LET sib == Children(d, n.parent)
            IN IF sib # {} THEN d[CHOOSE j \in sib : \A k \in sib : k <= j].tag # "#text"
               ELSE IF n.parent = 0 THEN TRUE
               ELSE ~d[n.parent].word

\* the word of node i
Word(i) == ToString(i)

\* ---- BeautifulSoup, on a soup [nodes, alive]: the nodes and the set of those that
\* ---- are still in the tree

RECURSIVE Descendants(_, _)
\* the nodes of the subtree of i, i included, in document order
Descendants(soup, i) ==
    LET kids == {j \in Children(soup.nodes, i) : j \in soup.alive}
    IN {i} \cup UNION {Descendants(soup, j) : j \in kids}

RECURSIVE SortedSeq(_)
\* the elements of a set of numbers in ascending order
SortedSeq(S) ==
    IF S = {} THEN <<>>
    ELSE LET m == CHOOSE x \in S : \A y \in S : x <= y
         IN <<m>> \o SortedSeq(S \ {m})

RECURSIVE GetTextOf(_, _)
\* the strings under the nodes of a list, stripped, the empty ones dropped
GetTextOf(soup, is) ==
    IF is = <<>> THEN <<>>
    ELSE LET i == Head(is)
             own == IF soup.nodes[i].word THEN <<Word(i)>> ELSE <<>>
             kids == SortedSeq({j \in Children(soup.nodes, i) : j \in soup.alive})
         IN own \o GetTextOf(soup, kids) \o GetTextOf(soup, Tail(is))

\* element.get_text(separator=" ", strip=True)
get_text(soup, i) == GetTextOf(soup, <<i>>)

\* soup.get_text(separator=" ", strip=True)
soup_get_text(soup) ==
    GetTextOf(soup, SortedSeq({j \in Children(soup.nodes, 0) : j \in soup.alive}))

\* a parser that leaves the script and style elements in the tree
DecomposeNothing(soup) == soup

\* for script in soup(["script", "style"]): script.decompose()
Decompose(soup) ==
    LET gone == UNION {Descendants(soup, i) :
                         i \in {j \in soup.alive : soup.nodes[j].tag \in {"script", "style"}}}
    IN [soup EXCEPT !.alive = soup.alive \ gone]

\* soup.find_all(["h1", "h2", "h3"])
find_all_headers(soup) ==
    SortedSeq({j \in soup.alive : soup.nodes[j].tag \in HeadingTags})

\* the siblings that follow node i, in document order
NextSiblings(soup, i) ==
    SortedSeq({j \in Children(soup.nodes, soup.nodes[i].parent) : j \in soup.alive /\ j > i})

\* the subtree of i as a value: what Tag.__eq__ compares (name and contents)
TreeValue(soup, i) ==
    LET ds == SortedSeq(Descendants(soup, i))
    IN [k \in 1..Len(ds) |->
          [tag |-> soup.nodes[ds[k]].tag,
           word |-> IF soup.nodes[ds[k]].word THEN Word(ds[k]) ELSE "",
           up |-> IF k = 1 THEN 0 ELSE ds[k] - soup.nodes[ds[k]].parent]]

\* current == next_header (next_header = 0: None)
EqualsNextHeader(soup, current, next_header) ==
    next_header # 0 /\ TreeValue(soup, current) = TreeValue(soup, next_header)

\* the test that ends the walk over the siblings
IsBoundary(soup, current, next_header) ==
    \/ EqualsNextHeader(soup, current, next_header)
    \/ soup.nodes[current].tag \in HeadingTags

RECURSIVE ContentElements(_, _, _)
\* the while loop over header.next_sibling: the texts collected
ContentElements(soup, sibs, next_header) ==
    IF sibs = <<>> THEN <<>>
    ELSE IF IsBoundary(soup, Head(sibs), next_header) THEN <<>>
    ELSE get_text(soup, Head(sibs)) \o ContentElements(soup, Tail(sibs), next_header)

\* the chunk of the header at position i of headers: <<>> if full_content is empty
HeaderChunk(soup, hs, i) ==
    LET header == hs[i]
        header_text == get_text(soup, header)
        next_header == IF i + 1 <= Len(hs) THEN hs[i + 1] ELSE 0
        content == ContentElements(soup, NextSiblings(soup, header), next_header)
        full_content == header_text \o content
    IN IF full_content # <<>>
       THEN <<[url |-> "url", header |-> header_text, content |-> full_content,
               header_type |-> soup.nodes[header].tag]>>
       ELSE <<>>

\* the chunk of a page without headers: <<>> if the page has no text
NoHeaderChunk(soup) ==
    LET text_content == soup_get_text(soup)
    IN IF text_content # <<>>
       THEN <<[url |-> "url", header |-> <<"Main Content">>, content |-> text_content,
               header_type |-> "none"]>>
       ELSE <<>>

InitParseVars ==
    /\ doc = [nodes |-> <<>>, alive |-> {}]
    /\ parse_pc = "html"
    /\ headers = <<>>
    /\ hi = 0
    /\ chunks = <<>>

\* the html parse_content is given, node by node
HtmlNode(kinds) ==
    /\ parse_pc = "html"
    /\ Len(doc.nodes) < MaxNodes
    /\ \E n \in NextNodes(kinds, doc.nodes) :
          /\ WellPlaced(doc.nodes, n)
          /\ doc' = [nodes |-> Append(doc.nodes, n), alive |-> 1..(Len(doc.nodes) + 1)]
    /\ UNCHANGED <<parse_pc, headers, hi, chunks>>

\* html with h1/h2/h3 elements
HtmlAny == HtmlNode(NodeKinds)

\* html without h1/h2/h3 elements
HtmlPlain == HtmlNode(PlainKinds)

\* soup = BeautifulSoup(html), the scripts decomposed, headers = soup.find_all(...)
ParseBegin ==
    /\ parse_pc = "html"
    /\ doc' = Decompose(doc)
    /\ headers' = find_all_headers(doc')
    /\ hi' = 1
    /\ parse_pc' = "loop"
    /\ UNCHANGED chunks

\* if not headers: the whole text as one chunk
ParseNoHeaders ==
    /\ parse_pc = "loop"
    /\ headers = <<>>
    /\ chunks' = chunks \o NoHeaderChunk(doc)
    /\ parse_pc' = "return"
    /\ UNCHANGED <<doc, headers, hi>>

\* one iteration of for i, header in enumerate(headers)
ParseHeader ==
    /\ parse_pc = "loop"
    /\ headers # <<>>
    /\ hi <= Len(headers)
    /\ chunks' = chunks \o HeaderChunk(doc, headers, hi)
    /\ hi' = hi + 1
    /\ UNCHANGED <<doc, headers, parse_pc>>

\* the loop over the headers is over
ParseLoopEnd ==
    /\ parse_pc = "loop"
    /\ headers # <<>>
    /\ hi > Len(headers)
    /\ parse_pc' = "return"
    /\ UNCHANGED <<doc, headers, hi, chunks>>

\* return chunks
ParseReturn ==
    /\ parse_pc = "return"
    /\ parse_pc' = "done"
    /\ UNCHANGED <<doc, headers, hi, chunks>>

IdleParseVars ==
    /\ doc = [nodes |-> <<>>, alive |-> {}]
    /\ parse_pc = "idle"
    /\ headers = <<>>
    /\ hi = 0
    /\ chunks = <<>>

-----------------------------------------------------------------------------
(* main.py: the session store, the context assembler, the request          *)
(* handlers.                                                               *)
(*                                                                         *)
(* A text is a sequence of string tokens.  The message of a chat request   *)
(* is <<"q", n>>, the text of a selection <<"sel", n>>, the answer of the  *)
(* generation service <<"answer", n>>, n a number written as a string, so  *)
(* that the messages and the selections of a session are told apart.  In   *)
(* this specification one request is handled at a time.                    *)

\* how many chat requests get to write their user message
MaxChats == 6

\* how many selections the store holds before the last selection request
MaxSelections == 6

\* how many calls of a service or of the store go wrong in one run
MaxFaults == 1

\* chat_history[-8:]
HistoryWindow == 8

\* additional_context["selected_texts"][-5:]
SelectionWindow == 5

\* retrieve_content(self, query, limit=3)
RetrievalLimit == 3

\* the session id the client sends
ClientSessions == {"s1"}

\* the values str(uuid.uuid4()) takes
Uuids == {"uuid-1"}

\* the dict {}
EmptyDict == [k \in {} |-> <<>>]

\* the table sessions without a row
NoSessions == [s \in {} |-> [context |-> <<>>]]

\* key in d
HasKey(d, key) == DOMAIN d # {} /\ key \in DOMAIN d

\* the request handler before the first request
NoRequest ==
    [kind |-> "none", pc |-> "idle", given |-> "", session_id |-> "", message |-> <<>>,
     context |-> EmptyDict, history |-> <<>>, context_parts |-> <<>>,
     response |-> <<>>, citations |-> <<>>, status |-> 0, errors |-> {}, raised |-> ""]

IdleChatVars ==
    /\ sessions = NoSessions
    /\ chat_history = <<>>
    /\ clock = 0
    /\ utc = 0
    /\ req = NoRequest
    /\ faults = 0

\* ---- json

\* one element of selected_texts, dumped
DumpSelection(sel) ==
    <<"{", sel.text[1], sel.text[2], sel.timestamp, sel.session_id, "}">>

RECURSIVE DumpList(_)
DumpList(l) == IF l = <<>> THEN <<>> ELSE DumpSelection(Head(l)) \o DumpList(Tail(l))

\* json.dumps(context)
json_dumps(context) ==
    IF HasKey(context, "selected_texts")
    THEN <<"{", "selected_texts", "[">> \o DumpList(context.selected_texts) \o <<"]", "}">>
    ELSE <<"{", "}">>

RECURSIVE LoadList(_)
LoadList(t) ==
    IF t = <<>> THEN <<>>
    ELSE <<[text |-> <<t[2], t[3]>>, timestamp |-> t[4], session_id |-> t[5]]>>
         \o LoadList(SubSeq(t, 7, Len(t)))

\* whether json.loads(text) raises JSONDecodeError
JSONDecodeError(text) ==
    ~ \/ text = <<"{", "}">>
      \/ /\ Len(text) >= 5
         /\ SubSeq(text, 1, 3) = <<"{", "selected_texts", "[">>
         /\ SubSeq(text, Len(text) - 1, Len(text)) = <<"]", "}">>
         /\ (Len(text) - 5) % 6 = 0

\* json.loads(text)
json_loads(text) ==
    IF Len(text) = 2 THEN EmptyDict
    ELSE [selected_texts |-> LoadList(SubSeq(text, 4, Len(text) - 2))]

\* ---- the store

\* conn.fetchval("SELECT context FROM sessions WHERE session_id = $1"): <<>> is None
SelectContext(sess, session_id) ==
    IF session_id \in DOMAIN sess THEN sess[session_id].context ELSE <<>>

\* get_session_context, the connection open
get_session_context(sess, session_id) ==
    LET result == SelectContext(sess, session_id)
    IN IF result # <<>>
       THEN (IF JSONDecodeError(result) THEN EmptyDict ELSE json_loads(result))
       ELSE EmptyDict

\* INSERT INTO sessions ... ON CONFLICT (session_id) DO UPDATE SET context = $2
update_session_context(sess, session_id, context) ==
    [s \in DOMAIN sess \cup {session_id} |->
        IF s = session_id THEN [context |-> json_dumps(context)] ELSE sess[s]]

\* a save that does not create the session
EnsureNothing(sess, session_id) == sess

\* INSERT INTO sessions ... ON CONFLICT (session_id) DO NOTHING: the context is NULL
EnsureSession(sess, session_id) ==
    [s \in DOMAIN sess \cup {session_id} |->
        IF s \in DOMAIN sess THEN sess[s] ELSE [context |-> <<>>]]

\* an insert that is sent twice
InsertMessageTwice(table, session_id, role, content, now) ==
    LET row == [id |-> Len(table) + 1, session_id |-> session_id, role |-> role,
                content |-> content, timestamp |-> now]
    IN Append(Append(table, row), [row EXCEPT !.id = Len(table) + 2])

\* INSERT INTO chat_history (session_id, role, content): id and timestamp by default
InsertMessage(table, session_id, role, content, now) ==
    Append(table, [id |-> Len(table) + 1, session_id |-> session_id, role |-> role,
                   content |-> content, timestamp |-> now])

RECURSIVE OrderByTimestamp(_)
\* ORDER BY timestamp ASC
OrderByTimestamp(rows) ==
    IF rows = <<>> THEN <<>>
    ELSE LET m == CHOOSE i \in 1..Len(rows) :
                     \A j \in 1..Len(rows) :
                        \/ rows[i].timestamp < rows[j].timestamp
                        \/ rows[i].timestamp = rows[j].timestamp /\ i <= j
         IN <<rows[m]>> \o
            OrderByTimestamp(SubSeq(rows, 1, m - 1) \o SubSeq(rows, m + 1, Len(rows)))

\* WHERE session_id = $1
WhereSession(table, session_id) ==
    SelectSeq(table, LAMBDA row : row.session_id = session_id)

\* get_chat_history, the query answered
get_chat_history(table, session_id) ==
    LET rows == OrderByTimestamp(WhereSession(table, session_id))
    IN [i \in 1..Len(rows) |->
          [role |-> rows[i].role, content |-> rows[i].content,
           timestamp |-> rows[i].timestamp]]

\* ---- RAGAgent

\* self.system_prompt
system_prompt == <<"You are the Physical AI and Humanoid Robotics Expert.">>

\* the answer of generate_response when the generation call raises
Apology == <<"I encountered an error while processing your request. Please try again.">>

\* the answer of generate_response when the generation call returns no content
NoContent == <<"I couldn't generate a proper response. Please try again.">>

\* the slice that keeps every element
SliceAll(s, n) == s

\* s[-n:]
LastN(s, n) == IF Len(s) <= n THEN s ELSE SubSeq(s, Len(s) - n + 1, Len(s))

\* content[:800], a token standing for 400 characters
First800(content) == IF Len(content) <= 2 THEN content ELSE SubSeq(content, 1, 2)

\* str.upper() of a role
Upper(role) ==
    CASE role = "user" -> "USER"
      [] role = "assistant" -> "ASSISTANT"
      [] OTHER -> role

\* the list retrieve_content returns for n hits: hit i has a content of i tokens
RetrievedContent(n) ==
    [i \in 1..n |->
        [url |-> <<"https://site/", ToString(i)>>, header |-> <<"Section", ToString(i)>>,
         content |-> [k \in 1..i |-> "text"]]]

RECURSIVE SelectionParts(_)
\* the two parts of each selection
SelectionParts(l) ==
    IF l = <<>> THEN <<>>
    ELSE << <<"[Highlighted at", Head(l).timestamp, "]">>, <<"Text:">> \o Head(l).text >>
         \o SelectionParts(Tail(l))

\* the block of the highlighted text
HighlightedBlock(additional_context) ==
    IF HasKey(additional_context, "selected_texts")
    THEN << <<"USER HIGHLIGHTED TEXT (PRIMARY CONTEXT):">> >>
         \o SelectionParts(LastN(additional_context.selected_texts, SelectionWindow))
    ELSE <<>>

RECURSIVE SourceParts(_, _)
\* the four parts of each retrieved source, from source i on
SourceParts(retrieved_content, i) ==
    IF i > Len(retrieved_content) THEN <<>>
    ELSE << <<"--- Source", ToString(i), "---">>,
            <<"URL:">> \o retrieved_content[i].url,
            <<"Section:">> \o retrieved_content[i].header,
            <<"Content:">> \o First800(retrieved_content[i].content) \o <<"...">> >>
         \o SourceParts(retrieved_content, i + 1)

\* the block of the retrieved content
RetrievedBlock(retrieved_content) ==
    IF retrieved_content # <<>>
    THEN << <<"RELEVANT DOCUMENT SECTIONS:">> >> \o SourceParts(retrieved_content, 1)
    ELSE <<>>

RECURSIVE MessageParts(_)
\* the part of each message
MessageParts(l) ==
    IF l = <<>> THEN <<>>
    ELSE << <<Upper(Head(l).role), ":">> \o Head(l).content >> \o MessageParts(Tail(l))

\* the block of the conversation history
HistoryBlock(history) ==
    IF history # <<>>
    THEN << <<"CONVERSATION HISTORY:">> >> \o MessageParts(LastN(history, HistoryWindow))
    ELSE <<>>

\* a context with the retrieved content put before the highlighted text
context_parts_retrieved_first(history, additional_context, retrieved_content) ==
    <<system_prompt>> \o RetrievedBlock(retrieved_content)
        \o HighlightedBlock(additional_context) \o HistoryBlock(history)

\* generate_response: the list context_parts
context_parts(history, additional_context, retrieved_content) ==
    <<system_prompt>> \o HighlightedBlock(additional_context)
        \o RetrievedBlock(retrieved_content) \o HistoryBlock(history)

\* ---- RAGAgent.extract_citations

\* how many sources the retrieved content holds when extract_citations is called on
\* its own
MaxSources == 3

\* list(citations)[:5]
CitationCap == 5

\* the hash seeds a server process starts with (PYTHONHASHSEED is random by default)
HashSeeds == {0, 1}

\* the url and the header of source number i
SourceUrl(i) == <<"https://site/", ToString(i)>>
SourceHeader(i) == <<"API", ToString(i)>>

\* the number a token was written from
NumberOf(token) == CHOOSE n \in 0..9 : ToString(n) = token

\* the characters of a citation, as the number its hash is computed from
CitationCode(citation) ==
    LET n == NumberOf(citation[Len(citation)])
    IN IF citation[1] = "Section:" THEN 2 * n + 1 ELSE 2 * n

\* the slot of a string in the table of a set, for the hash seed of the process
HashSlot(citation, seed) == (CitationCode(citation) * (2 * seed + 1) + seed) % 8

\* citations.add(x), the set kept in the order of insertion
SetAdd(set, x) ==
    IF \E i \in 1..Len(set) : set[i] = x THEN set ELSE Append(set, x)

RECURSIVE ListOfSet(_, _)
\* list(citations): the elements in the order of their slots
ListOfSet(set, seed) ==
    IF set = <<>> THEN <<>>
    ELSE LET m == CHOOSE i \in 1..Len(set) :
                     \A j \in 1..Len(set) :
                        \/ HashSlot(set[i], seed) < HashSlot(set[j], seed)
                        \/ HashSlot(set[i], seed) = HashSlot(set[j], seed) /\ i <= j
         IN <<set[m]>> \o
            ListOfSet(SubSeq(set, 1, m - 1) \o SubSeq(set, m + 1, Len(set)), seed)

\* a slice that keeps every element
TakeAll(s, n) == s

\* s[:n]
FirstN(s, n) == IF Len(s) <= n THEN s ELSE SubSeq(s, 1, n)

\* a test that looks for the header as it is written
HeaderCitedVerbatim(header, response) == header # <<>> /\ Contains(response, header)

\* header and header.lower() in response.lower()
HeaderCited(header, response) == header # <<>> /\ Contains(Lower(response), Lower(header))

\* url and url in response
UrlCited(url, response) == url # <<>> /\ Contains(response, url)

RECURSIVE CollectCitations(_, _, _, _)
\* for content in retrieved_content: ... citations.add(...)
CollectCitations(response, retrieved_content, i, citations) ==
    IF i > Len(retrieved_content) THEN citations
    ELSE LET url == retrieved_content[i].url
             header == retrieved_content[i].header
             with_url == IF UrlCited(url, response) THEN SetAdd(citations, url)
                         ELSE citations
             with_header == IF HeaderCited(header, response)
                            THEN SetAdd(with_url, <<"Section:">> \o header)
                            ELSE with_url
         IN CollectCitations(response, retrieved_content, i + 1, with_header)

\* RAGAgent.extract_citations, in a process with the given hash seed
extract_citations(response, retrieved_content, seed) ==
    FirstN(ListOfSet(CollectCitations(response, retrieved_content, 1, <<>>), seed),
           CitationCap)

\* the sources a caller may pass as source number i: with url and header, without
\* url, or without header and with the url of source 1
SourceChoices(i) ==
    {[url |-> SourceUrl(i), header |-> SourceHeader(i)],
     [url |-> <<>>, header |-> SourceHeader(i)],
     [url |-> SourceUrl(1), header |-> <<>>]}

\* what an answer may say of source number i: nothing, its url, its header in lower
\* case, or its url and its header
MentionChoices(i) ==
    {<<>>, SourceUrl(i), <<"see", "api", ToString(i)>>,
     SourceUrl(i) \o <<"in">> \o SourceHeader(i)}

\* extract_citations is not called
IdleCiteVars ==
    cite = [pc |-> "idle", hash_seed |-> 0, retrieved_content |-> <<>>, response |-> <<>>,
            mentioned |-> 0, citations |-> <<>>, first |-> <<>>, calls |-> 0]

\* a server process has started, with its hash seed
InitCiteVars ==
    \E seed \in HashSeeds :
        cite = [pc |-> "sources", hash_seed |-> seed, retrieved_content |-> <<>>,
                response |-> <<"answer">>, mentioned |-> 0, citations |-> <<>>,
                first |-> <<>>, calls |-> 0]

\* the argument retrieved_content, source by source
CiteSource ==
    /\ cite.pc = "sources"
    /\ Len(cite.retrieved_content) < MaxSources
    /\ \E source \in SourceChoices(Len(cite.retrieved_content) + 1) :
          cite' = [cite EXCEPT !.retrieved_content = Append(@, source)]

\* the argument response, sentence by sentence
CiteMention ==
    /\ cite.pc \in {"sources", "response"}
    /\ cite.mentioned < MaxSources
    /\ \E mention \in MentionChoices(cite.mentioned + 1) :
          cite' = [cite EXCEPT !.pc = "response", !.response = @ \o mention,
                               !.mentioned = @ + 1]

\* a call of extract_citations with these arguments
CiteCall ==
    /\ cite.pc \in {"sources", "response", "returned"}
    /\ cite.calls < 2
    /\ LET result == extract_citations(cite.response, cite.retrieved_content, cite.hash_seed)
       IN cite' = [cite EXCEPT !.pc = "returned", !.citations = result,
                               !.first = IF cite.calls = 0 THEN result ELSE @,
                               !.calls = @ + 1]

\* the server process is started again between two calls: a new hash seed
CiteRestart ==
    /\ cite.pc = "returned"
    /\ cite.calls = 1
    /\ \E seed \in HashSeeds \ {cite.hash_seed} :
          cite' = [cite EXCEPT !.hash_seed = seed]

\* ---- the request handlers

\* the outcomes of a call: "ok", or one of the failures while the run may have one more
Outcomes(failures) == {"ok"} \cup (IF faults < MaxFaults THEN failures ELSE {})

\* str(uuid.uuid4()): an id no session has
uuid4 == CHOOSE u \in Uuids : u \notin DOMAIN sessions

\* the selections the store holds for a session
StoredSelections(session_id) ==
    LET context == get_session_context(sessions, session_id)
    IN IF HasKey(context, "selected_texts") THEN context.selected_texts ELSE <<>>

\* a save that swallows the failure of its statements
save_chat_message_swallow(session_id, role, content, outcome) ==
    IF outcome = "ok"
    THEN [sessions |-> EnsureSession(sessions, session_id),
          chat_history |-> InsertMessage(chat_history, session_id, role, content, clock + 1),
          clock |-> clock + 1, raised |-> FALSE]
    ELSE [sessions |-> sessions, chat_history |-> chat_history, clock |-> clock,
          raised |-> FALSE]

\* save_chat_message: the tables afterwards, and whether it raised
save_chat_message(session_id, role, content, outcome) ==
    CASE outcome = "ok" ->
            [sessions |-> EnsureSession(sessions, session_id),
             chat_history |-> InsertMessage(chat_history, session_id, role, content, clock + 1),
             clock |-> clock + 1, raised |-> FALSE]
      [] outcome = "insert_error" ->
            [sessions |-> EnsureSession(sessions, session_id),
             chat_history |-> chat_history, clock |-> clock, raised |-> TRUE]
      [] OTHER ->
            [sessions |-> sessions, chat_history |-> chat_history, clock |-> clock,
             raised |-> TRUE]

\* the handler once generate_response has returned: its context_parts are gone, and
\* context and history are not read again
Returned(r) ==
    [r EXCEPT !.context_parts = <<>>, !.context = EmptyDict, !.history = <<>>]

\* POST /api/chat arrives: session_id = chat_request.session_id or str(uuid.uuid4())
ChatStart ==
    /\ req.pc \in {"idle", "done"}
    /\ Cardinality({i \in DOMAIN chat_history : chat_history[i].role = "user"}) < MaxChats
    /\ \E given \in ClientSessions \cup {"None"} :
          /\ IF given = "None" THEN Uuids \ DOMAIN sessions # {} ELSE TRUE
          /\ req' = [NoRequest EXCEPT
                        !.kind = "chat",
                        !.pc = "get_session_context",
                        !.given = given,
                        !.session_id = IF given = "None" THEN uuid4 ELSE given,
                        !.message = <<"q", ToString(Len(chat_history) + 1)>>]
    /\ UNCHANGED <<sessions, chat_history, clock, utc, faults>>

\* context = await get_session_context(session_id), before the try of chat: a failure
\* of get_db_connection or of fetchval is caught nowhere
ChatGetSessionContext ==
    /\ req.kind = "chat" /\ req.pc = "get_session_context"
    /\ \E outcome \in Outcomes({"connect_error", "query_error"}) :
          /\ req' = IF outcome = "ok"
                    THEN [req EXCEPT !.context = get_session_context(sessions, req.session_id),
                                     !.pc = "get_chat_history"]
                    ELSE [req EXCEPT !.pc = "done", !.status = 500,
                                     !.raised = "get_session_context"]
          /\ faults' = IF outcome = "ok" THEN faults ELSE faults + 1
    /\ UNCHANGED <<sessions, chat_history, clock, utc>>

\* history = await get_chat_history(session_id): a failure of the query gives []
ChatGetHistory ==
    /\ req.kind = "chat" /\ req.pc = "get_chat_history"
    /\ \E outcome \in Outcomes({"query_error", "connect_error"}) :
          /\ req' = CASE outcome = "ok" ->
                           [req EXCEPT !.history = get_chat_history(chat_history, req.session_id),
                                       !.pc = "generate_response"]
                      [] outcome = "query_error" ->
                           [req EXCEPT !.history = <<>>,
                                       !.errors = @ \cup {"Error retrieving chat history"},
                                       !.pc = "generate_response"]
                      [] OTHER -> [req EXCEPT !.pc = "done", !.status = 500,
                                              !.raised = "get_chat_history"]
          /\ faults' = IF outcome = "ok" THEN faults ELSE faults + 1
    /\ UNCHANGED <<sessions, chat_history, clock, utc>>

\* retrieve_content that hands on the hits whatever the outcome
retrieve_content_stale(hits, outcome) == RetrievedContent(hits)

\* RAGAgent.retrieve_content: the hits, or [] when the embedding call or the search raises
retrieve_content(hits, outcome) ==
    IF outcome = "ok" THEN RetrievedContent(hits) ELSE <<>>

\* the answer of the generation service to message number n: it names one url
Answer(n) == <<"answer", ToString(n), "see", "https://site/", "1">>

\* an except branch that raises again
GenerationReraise == [response |-> <<>>, citations |-> <<>>, raised |-> "generate_response"]

\* generate_response, except Exception: the apology and no citation
GenerationExcept == [response |-> Apology, citations |-> <<>>, raised |-> ""]

\* generate_response from the generation call on: the answer and its citations
Generation(outcome, n, retrieved_content, seed) ==
    CASE outcome = "ok" ->
            [response |-> Answer(n),
             citations |-> extract_citations(Answer(n), retrieved_content, seed),
             raised |-> ""]
      [] outcome = "empty" ->
            [response |-> NoContent,
             citations |-> extract_citations(NoContent, retrieved_content, seed),
             raised |-> ""]
      [] OTHER -> GenerationExcept

\* agent.generate_response(...): retrieval, the context, the generation call; hits is
\* what the search holds for the query (one hit when the retrieval fails: it is lost)
ChatGenerate ==
    /\ req.kind = "chat" /\ req.pc = "generate_response"
    /\ \E retrieval \in Outcomes({"embed_error", "search_error"}),
          generation \in Outcomes({"empty", "error"}) :
          /\ faults + (IF retrieval = "ok" THEN 0 ELSE 1)
                    + (IF generation = "ok" THEN 0 ELSE 1) <= MaxFaults
          /\ \E hits \in (IF retrieval = "ok" THEN 0..RetrievalLimit ELSE {1}) :
             LET failed == (IF retrieval = "ok" THEN 0 ELSE 1)
                           + (IF generation = "ok" THEN 0 ELSE 1)
                 retrieved_content == retrieve_content(hits, retrieval)
                 generated == Generation(generation, Len(chat_history) + 2,
                                         retrieved_content, cite.hash_seed)
             IN
             /\ req' = [req EXCEPT
                          !.context_parts =
                              context_parts(req.history, req.context, retrieved_content),
                          !.response = generated.response,
                          !.citations = generated.citations,
                          !.errors =
                              @ \cup (IF retrieval = "ok" THEN {} ELSE {"Error retrieving content"})
                                \cup (IF generation = "error"
                                      THEN {"Error generating response"} ELSE {}),
                          !.raised = generated.raised,
                          !.status = IF generated.raised = "" THEN 0 ELSE 500,
                          !.pc = IF generated.raised = "" THEN "save_user" ELSE "done"]
             /\ faults' = faults + failed
    /\ UNCHANGED <<sessions, chat_history, clock, utc>>

\* await save_chat_message(session_id, "user", chat_request.message)
ChatSaveUser ==
    /\ req.kind = "chat" /\ req.pc = "save_user"
    /\ \E outcome \in Outcomes({"connect_error", "insert_error"}) :
          LET done == save_chat_message(req.session_id, "user", req.message, outcome)
          IN /\ sessions' = done.sessions
             /\ chat_history' = done.chat_history
             /\ clock' = done.clock
             /\ req' = [Returned(req) EXCEPT
                          !.pc = IF done.raised THEN "done" ELSE "save_assistant",
                          !.status = IF done.raised THEN 500 ELSE 0,
                          !.raised = IF done.raised THEN "save_chat_message" ELSE ""]
             /\ faults' = IF outcome = "ok" THEN faults ELSE faults + 1
    /\ UNCHANGED utc

\* await save_chat_message(session_id, "assistant", response); return ChatResponse(...)
ChatSaveAssistant ==
    /\ req.kind = "chat" /\ req.pc = "save_assistant"
    /\ \E outcome \in Outcomes({"connect_error", "insert_error"}) :
          LET done == save_chat_message(req.session_id, "assistant", req.response, outcome)
          IN /\ sessions' = done.sessions
             /\ chat_history' = done.chat_history
             /\ clock' = done.clock
             /\ req' = [req EXCEPT !.pc = "done",
                                   !.status = IF done.raised THEN 500 ELSE 200,
                                   !.raised = IF done.raised THEN "save_chat_message" ELSE ""]
             /\ faults' = IF outcome = "ok" THEN faults ELSE faults + 1
    /\ UNCHANGED utc

\* POST /api/chat/selection arrives
SelectionStart ==
    /\ req.pc \in {"idle", "done"}
    /\ \E given \in ClientSessions :
          /\ Len(StoredSelections(given)) < MaxSelections
          /\ req' = [NoRequest EXCEPT
                        !.kind = "selection",
                        !.pc = "get_session_context",
                        !.given = given,
                        !.session_id = given,
                        !.message = <<"sel", ToString(Len(StoredSelections(given)) + 1)>>]
    /\ UNCHANGED <<sessions, chat_history, clock, utc, faults>>

\* context = await get_session_context(session_id): handle_selection has no try
SelectionGetSessionContext ==
    /\ req.kind = "selection" /\ req.pc = "get_session_context"
    /\ \E outcome \in Outcomes({"connect_error", "query_error"}) :
          /\ req' = IF outcome = "ok"
                    THEN [req EXCEPT !.context = get_session_context(sessions, req.session_id),
                                     !.pc = "update_session_context"]
                    ELSE [req EXCEPT !.pc = "done", !.status = 500,
                                     !.raised = "get_session_context"]
          /\ faults' = IF outcome = "ok" THEN faults ELSE faults + 1
    /\ UNCHANGED <<sessions, chat_history, clock, utc>>

\* context["selected_texts"].append(...); await update_session_context(...)
SelectionUpdate ==
    /\ req.kind = "selection" /\ req.pc = "update_session_context"
    /\ \E outcome \in Outcomes({"error"}) :
          LET selection == [text |-> req.message, timestamp |-> ToString(utc + 1),
                            session_id |-> req.session_id]
              before == IF HasKey(req.context, "selected_texts")
                        THEN req.context.selected_texts ELSE <<>>
              context == [selected_texts |-> Append(before, selection)]
          IN /\ sessions' = IF outcome = "ok"
                            THEN update_session_context(sessions, req.session_id, context)
                            ELSE sessions
             /\ req' = [req EXCEPT !.context = EmptyDict, !.pc = "done",
                                   !.status = IF outcome = "ok" THEN 200 ELSE 500,
                                   !.raised = IF outcome = "ok" THEN ""
                                              ELSE "update_session_context"]
             /\ faults' = IF outcome = "ok" THEN faults ELSE faults + 1
             \* the reading of a request that fails is lost with it: only the order of
             \* the readings that are stored is observable
             /\ utc' = IF outcome = "ok" THEN utc + 1 ELSE utc
    /\ UNCHANGED <<chat_history, clock>>

\* ---- the request handlers, several at a time

\* the requests a run of the event loop accepts
MaxHandlers == 3

\* no request has arrived
IdleConcVars == handlers = <<>>

\* the locals of a handler that has just been entered
NewHandler ==
    [kind |-> "none", pc |-> "get_session_context", session_id |-> "", message |-> <<>>,
     context |-> EmptyDict, history |-> <<>>, context_parts |-> <<>>, response |-> <<>>,
     status |-> 0, raised |-> "", completed_before |-> {}]

\* the handlers that are suspended at an await
InFlight == {i \in 1..Len(handlers) : handlers[i].pc # "done"}

\* the selection requests on a session that have returned their response
CompletedSelections(session_id) ==
    {i \in 1..Len(handlers) :
        /\ handlers[i].kind = "selection"
        /\ handlers[i].session_id = session_id
        /\ handlers[i].pc = "done"
        /\ handlers[i].status = 200}

\* the ids the handlers in flight have generated
GeneratedIds == {handlers[i].session_id : i \in InFlight} \cap Uuids

\* a plain INSERT INTO sessions: the primary key rejects a second row
PrimaryKeyViolation(sess, session_id) == session_id \in DOMAIN sess

\* INSERT INTO sessions ... ON CONFLICT (session_id) DO ...: a row with the key is
\* no error
UniqueViolation(sess, session_id) == FALSE

\* chat_history.session_id REFERENCES sessions(session_id)
ForeignKeyViolation(sess, session_id) == session_id \notin DOMAIN sess

\* the handler raises: FastAPI answers 500
Raise(handler, exception) ==
    [handler EXCEPT !.pc = "done", !.status = 500, !.raised = exception,
                    !.context = EmptyDict, !.history = <<>>, !.context_parts = <<>>]

\* a request arrives and its handler runs up to its first await
ConcArrive ==
    /\ Len(handlers) < MaxHandlers
    /\ \E kind \in {"chat", "selection"}, given \in ClientSessions \cup {"None"} :
          /\ IF given = "None"
             THEN kind = "chat" /\ Uuids \ (DOMAIN sessions \cup GeneratedIds) # {}
             ELSE TRUE
          /\ LET n == Len(handlers) + 1
                 session_id == IF given = "None"
                               THEN CHOOSE u \in Uuids : u \notin DOMAIN sessions \cup GeneratedIds
                               ELSE given
             IN handlers' = Append(handlers,
                   [NewHandler EXCEPT
                       !.kind = kind,
                       !.session_id = session_id,
                       !.message = <<(IF kind = "chat" THEN "q" ELSE "sel"), ToString(n)>>,
                       !.completed_before = CompletedSelections(session_id)])
    /\ UNCHANGED <<sessions, chat_history, clock, utc>>

\* context = await get_session_context(session_id)
ConcGetSessionContext(i) ==
    /\ handlers[i].pc = "get_session_context"
    /\ handlers' = [handlers EXCEPT
          ![i].context = get_session_context(sessions, handlers[i].session_id),
          ![i].pc = IF handlers[i].kind = "chat" THEN "get_chat_history"
                    ELSE "update_session_context"]
    /\ UNCHANGED <<sessions, chat_history, clock, utc>>

\* history = await get_chat_history(session_id)
ConcGetHistory(i) ==
    /\ handlers[i].pc = "get_chat_history"
    /\ handlers' = [handlers EXCEPT
          ![i].history = get_chat_history(chat_history, handlers[i].session_id),
          ![i].pc = "generate_response"]
    /\ UNCHANGED <<sessions, chat_history, clock, utc>>

\* response, citations = agent.generate_response(...): no await inside
ConcGenerate(i) ==
    /\ handlers[i].pc = "generate_response"
    /\ \E hits \in 0..RetrievalLimit :
          handlers' = [handlers EXCEPT
             ![i].context_parts = context_parts(handlers[i].history, handlers[i].context,
                                                retrieve_content(hits, "ok")),
             ![i].response = Answer(i),
             ![i].context = EmptyDict,
             ![i].history = <<>>,
             ![i].pc = "ensure_user"]
    /\ UNCHANGED <<sessions, chat_history, clock, utc>>

\* save_chat_message, first statement: INSERT INTO sessions ... ON CONFLICT DO NOTHING
ConcEnsureSession(i) ==
    /\ handlers[i].pc \in {"ensure_user", "ensure_assistant"}
    /\ IF UniqueViolation(sessions, handlers[i].session_id)
       THEN /\ handlers' = [handlers EXCEPT ![i] = Raise(@, "UniqueViolationError")]
            /\ UNCHANGED sessions
       ELSE /\ sessions' = EnsureSession(sessions, handlers[i].session_id)
            /\ handlers' = [handlers EXCEPT
                  ![i].context_parts = <<>>,
                  ![i].pc = IF handlers[i].pc = "ensure_user" THEN "insert_user"
                            ELSE "insert_assistant"]
    /\ UNCHANGED <<chat_history, clock, utc>>

\* save_chat_message, second statement: INSERT INTO chat_history
ConcInsertMessage(i) ==
    /\ handlers[i].pc \in {"insert_user", "insert_assistant"}
    /\ IF ForeignKeyViolation(sessions, handlers[i].session_id)
       THEN /\ handlers' = [handlers EXCEPT ![i] = Raise(@, "ForeignKeyViolationError")]
            /\ UNCHANGED <<chat_history, clock>>
       ELSE /\ chat_history' =
                  IF handlers[i].pc = "insert_user"
                  THEN InsertMessage(chat_history, handlers[i].session_id, "user",
                                     handlers[i].message, clock + 1)
                  ELSE InsertMessage(chat_history, handlers[i].session_id, "assistant",
                                     handlers[i].response, clock + 1)
            /\ clock' = clock + 1
            /\ handlers' = [handlers EXCEPT
                  ![i].pc = IF handlers[i].pc = "insert_user" THEN "ensure_assistant"
                            ELSE "done",
                  ![i].status = IF handlers[i].pc = "insert_user" THEN 0 ELSE 200]
    /\ UNCHANGED <<sessions, utc>>

\* context["selected_texts"].append(...); await update_session_context(...); return
ConcUpdate(i) ==
    /\ handlers[i].pc = "update_session_context"
    /\ LET selection == [text |-> handlers[i].message, timestamp |-> ToString(utc + 1),
                         session_id |-> handlers[i].session_id]
           before == IF HasKey(handlers[i].context, "selected_texts")
                     THEN handlers[i].context.selected_texts ELSE <<>>
           context == [selected_texts |-> Append(before, selection)]
       IN IF UniqueViolation(sessions, handlers[i].session_id)
          THEN /\ handlers' = [handlers EXCEPT ![i] = Raise(@, "UniqueViolationError")]
               /\ UNCHANGED sessions
          ELSE /\ sessions' = update_session_context(sessions, handlers[i].session_id, context)
               /\ handlers' = [handlers EXCEPT ![i].context = EmptyDict, ![i].pc = "done",
                                               ![i].status = 200]
    /\ utc' = utc + 1
    /\ UNCHANGED <<chat_history, clock>>


\* ---- the start of the server and of the ingestion pipeline

\* the environment variables the two programs read
EnvNames ==
    {"NEON_DATABASE_URL", "QDRANT_URL", "QDRANT_API_KEY", "COHERE_API_KEY",
     "OPEN_ROUTER_API_KEY", "GEMINI_API_KEY"}

\* the requests a server that listens may be sent
Requests == {"GET /health", "POST /api/chat"}

\* no process has been started
IdleBootVars ==
    boot = [program |-> "none", env |-> {}, pc |-> "idle", database |-> "unknown",
            accepted |-> {}, status |-> 0, stages |-> {}]

\* python run_server.py or python ingest.py, in some environment
InitBootVars ==
    \E program \in {"server", "ingest"}, env \in SUBSET EnvNames :
        boot = [program |-> program, env |-> env,
                pc |-> IF program = "server" THEN "startup" ELSE "main",
                database |-> "unknown", accepted |-> {}, status |-> 0, stages |-> {}]

\* os.getenv(name) is truthy
Getenv(name) == name \in boot.env

\* what the query-time server needs: the store, the vector store, the embedding key and
\* one of the two keys of the generation service
ServerConfigured ==
    /\ Getenv("NEON_DATABASE_URL")
    /\ Getenv("QDRANT_URL") /\ Getenv("QDRANT_API_KEY")
    /\ Getenv("COHERE_API_KEY")
    /\ (Getenv("OPEN_ROUTER_API_KEY") \/ Getenv("GEMINI_API_KEY"))

\* all([COHERE_API_KEY, QDRANT_URL, QDRANT_API_KEY])
IngestConfigured ==
    Getenv("COHERE_API_KEY") /\ Getenv("QDRANT_URL") /\ Getenv("QDRANT_API_KEY")

\* startup_event: init_db in a try whose except prints a warning; the server then
\* listens, whether the tables could be created or not
StartupEvent ==
    /\ boot.program = "server" /\ boot.pc = "startup"
    /\ \E connect \in {"ok", "error"} :
          boot' = [boot EXCEPT
                     !.database = IF Getenv("NEON_DATABASE_URL") /\ connect = "ok"
                                  THEN "initialized" ELSE "warning",
                     !.pc = "serving"]

\* the server takes a request and answers it: the health check needs nothing; chat
\* builds RAGAgent from os.getenv values that may be None (clients that accept None or
\* raise, by the library) and opens a connection to the store
ServerAccept ==
    /\ boot.program = "server" /\ boot.pc = "serving"
    /\ \E request \in Requests \ boot.accepted,
          clients \in (IF ServerConfigured THEN {"built"} ELSE {"built", "raised"}),
          connect \in {"ok", "error"} :
          boot' = [boot EXCEPT
                     !.accepted = @ \cup {request},
                     !.status =
                        IF request = "GET /health" THEN 200
                        ELSE IF clients = "raised" THEN 500
                        ELSE IF Getenv("NEON_DATABASE_URL") /\ connect = "ok" THEN 200
                        ELSE 500]

\* main of ingest.py: the check of the configuration
MainConfig ==
    /\ boot.program = "ingest" /\ boot.pc = "main"
    /\ boot' = [boot EXCEPT !.pc = IF IngestConfigured THEN "extract" ELSE "ValueError"]

\* main of ingest.py: extract_all_pages, and return when there is no page
MainExtract ==
    /\ boot.program = "ingest" /\ boot.pc = "extract"
    /\ \E extracted \in {"none", "some"} :
          boot' = [boot EXCEPT !.stages = @ \cup {"crawl"},
                               !.pc = IF extracted = "none" THEN "returned" ELSE "embed"]

\* main of ingest.py: the embedding loop
MainEmbed ==
    /\ boot.program = "ingest" /\ boot.pc = "embed"
    /\ boot' = [boot EXCEPT !.stages = @ \cup {"embed"}, !.pc = "store"]

\* main of ingest.py: create_collection and store_chunks
MainStore ==
    /\ boot.program = "ingest" /\ boot.pc = "store"
    /\ boot' = [boot EXCEPT !.stages = @ \cup {"store"}, !.pc = "returned"]


\* ---- the ingestion pipeline: embedding and storing

\* the chunks of a run
MaxChunks == 4

\* batch_size of the embedding loop (96 in main), scaled to the runs of the model
EmbedBatchSize == 2

\* batch_size of store_chunks (20), scaled to the runs of the model
UpsertBatchSize == 2

\* chunk["content"][:10000]
ContentLimit == 10000

\* the pipeline is not running
IdleIngestVars ==
    ingest = [pc |-> "idle", chunks |-> <<>>, model |-> "", i |-> 0, all_embeddings |-> <<>>,
              primary |-> "", calls |-> <<>>, start |-> 0, points |-> <<>>, j |-> 0,
              collection |-> <<>>, raised |-> ""]

\* main has its components; EmbeddingService.__init__ sets self.model
InitIngestVars ==
    ingest = [pc |-> "chunks", chunks |-> <<>>, model |-> "embed-english-v3.0", i |-> 0,
              all_embeddings |-> <<>>, primary |-> "", calls |-> <<>>, start |-> 0,
              points |-> <<>>, j |-> 0, collection |-> <<>>, raised |-> ""]

\* chunk number n of the run; two chunks may have the same content
ChunkChoices(n) ==
    {[url |-> <<"page", ToString(n)>>, header |-> <<"Main Content">>, header_type |-> "none",
      content |-> content] : content \in {<<"text", ToString(n)>>, <<"text", "1">>}}

\* the vectors a successful call of client.embed returns: one for each text
Embed(texts, model) == [k \in 1..Len(texts) |-> [text |-> texts[k], model |-> model]]

\* a failure that returns nothing for the batch
NoVectors(texts) == <<>>

\* [[] for _ in texts]
EmptyVectors(texts) == [k \in 1..Len(texts) |-> <<>>]

\* fallback_models
fallback_models == <<"small", "medium", "large", "embed-english-v2.0">>

\* the two attempts after a TypeError that names input_type: model "small", then
\* self.model without input_type
TypeErrorModels(model) == <<"small", model>>

\* how the primary call of client.embed may end
PrimaryOutcomes ==
    {"ok", "TypeError: input_type", "TypeError", "input_type must be provided", "Exception"}

\* the alternates generate_embeddings has for a failure of the primary call
Alternates(primary, model) ==
    CASE primary = "TypeError: input_type" -> TypeErrorModels(model)
      [] primary = "input_type must be provided" -> fallback_models
      [] OTHER -> <<>>

\* EmbeddingService.generate_embeddings: first_ok is the first alternate whose call
\* succeeds, 0 when none does; calls are the models of the calls of client.embed
generate_embeddings(texts, model, primary, first_ok) ==
    LET alternates == Alternates(primary, model)
    IN CASE primary = "ok" ->
               [embeddings |-> Embed(texts, model), model |-> model, calls |-> <<model>>]
         [] primary # "ok" /\ first_ok \in 1..Len(alternates) ->
               [embeddings |-> Embed(texts, alternates[first_ok]),
                model |-> IF primary = "TypeError: input_type" /\ first_ok = 2
                          THEN model ELSE alternates[first_ok],
                calls |-> <<model>> \o SubSeq(alternates, 1, first_ok)]
         [] OTHER ->
               [embeddings |-> EmptyVectors(texts), model |-> model,
                calls |-> <<model>> \o alternates]

\* s[i : i + n], with i counted from 0
Slice(s, i, n) == SubSeq(s, i + 1, IF i + n < Len(s) THEN i + n ELSE Len(s))

\* the payload of a point
Payload(chunk) ==
    [url |-> chunk.url, header |-> chunk.header,
     content |-> FirstN(chunk.content, ContentLimit), header_type |-> chunk.header_type,
     module |-> "humanoid_robotics", content_type |-> "documentation"]

\* a loop that skips nothing
SkippedNever(embedding) == FALSE

\* if not embedding: continue
Skipped(embedding) == embedding = <<>>

RECURSIVE Points(_, _, _)
\* store_chunks: the points of zip(chunks, embeddings) from pair i on, i counted from 0
Points(chunk_list, embeddings, i) ==
    IF i >= Len(chunk_list) \/ i >= Len(embeddings) THEN <<>>
    ELSE (IF Skipped(embeddings[i + 1]) THEN <<>>
          ELSE <<[id |-> i, vector |-> embeddings[i + 1],
                  payload |-> Payload(chunk_list[i + 1])]>>)
         \o Points(chunk_list, embeddings, i + 1)

\* chunker.chunk_content(pages): the chunks of the run, one by one
IngestChunk ==
    /\ ingest.pc = "chunks"
    /\ Len(ingest.chunks) < MaxChunks
    /\ \E chunk \in ChunkChoices(Len(ingest.chunks) + 1) :
          ingest' = [ingest EXCEPT !.chunks = Append(@, chunk)]

\* texts = [chunk["content"] for chunk in chunks]; all_embeddings = []
IngestTexts ==
    /\ ingest.pc = "chunks"
    /\ ingest' = [ingest EXCEPT !.pc = "embed"]

\* one round of the embedding loop: generate_embeddings(batch_texts), extend
IngestEmbedBatch ==
    /\ ingest.pc = "embed"
    /\ ingest.i < Len(ingest.chunks)
    /\ \E primary \in PrimaryOutcomes :
       \E first_ok \in 0..Len(Alternates(primary, ingest.model)) :
          LET texts == [k \in 1..Len(ingest.chunks) |-> ingest.chunks[k].content]
              batch_texts == Slice(texts, ingest.i, EmbedBatchSize)
              result == generate_embeddings(batch_texts, ingest.model, primary, first_ok)
          IN /\ IF primary = "ok" THEN first_ok = 0 ELSE TRUE
             /\ ingest' = [ingest EXCEPT
                             !.all_embeddings = @ \o result.embeddings,
                             !.model = result.model,
                             !.primary = primary,
                             !.calls = result.calls,
                             !.start = ingest.i,
                             !.i = @ + EmbedBatchSize]

\* vector_store.create_collection(): get_collection, and create_collection when it
\* raises; a failure of create_collection is caught nowhere
IngestCreateCollection ==
    /\ ingest.pc = "embed"
    /\ ingest.i >= Len(ingest.chunks)
    /\ \E found \in BOOLEAN, create \in {"ok", "error"} :
          ingest' = IF found \/ create = "ok"
                    THEN [ingest EXCEPT !.pc = "store", !.primary = "", !.calls = <<>>,
                                        !.start = 0]
                    ELSE [ingest EXCEPT !.pc = "raised", !.raised = "create_collection",
                                        !.primary = "", !.calls = <<>>, !.start = 0]

\* store_chunks: the loop that builds points
IngestPoints ==
    /\ ingest.pc = "store"
    /\ LET points == Points(ingest.chunks, ingest.all_embeddings, 0)
       IN ingest' = [ingest EXCEPT !.points = points,
                                   !.pc = IF points # <<>> THEN "upsert" ELSE "done"]

\* store_chunks: one upsert of a batch of points; its failure is caught nowhere
IngestUpsert ==
    /\ ingest.pc = "upsert"
    /\ \E outcome \in {"ok", "error"} :
          LET batch == Slice(ingest.points, ingest.j, UpsertBatchSize)
              last == ingest.j + UpsertBatchSize >= Len(ingest.points)
          IN ingest' = IF outcome = "ok"
                       THEN [ingest EXCEPT !.collection = @ \o batch,
                                           !.j = @ + UpsertBatchSize,
                                           !.pc = IF last THEN "done" ELSE "upsert"]
                       ELSE [ingest EXCEPT !.pc = "raised", !.raised = "upsert"]


-----------------------------------------------------------------------------
(* The specifications.                                                     *)

InitCrawl == InitCrawlVars /\ IdleParseVars /\ IdleChatVars /\ IdleCiteVars /\ IdleConcVars /\ IdleBootVars /\ IdleIngestVars

NextCrawl ==
    \/ CrawlSkipVisited /\ UNCHANGED <<parseVars, chatVars, citeVars, concVars, bootVars, ingestVars>>
    \/ CrawlFetch /\ UNCHANGED <<parseVars, chatVars, citeVars, concVars, bootVars, ingestVars>>
    \/ CrawlReturn /\ UNCHANGED <<parseVars, chatVars, citeVars, concVars, bootVars, ingestVars>>

InitParse == IdleCrawlVars /\ InitParseVars /\ IdleChatVars /\ IdleCiteVars /\ IdleConcVars /\ IdleBootVars /\ IdleIngestVars

NextParse ==
    \/ HtmlAny /\ UNCHANGED <<crawlVars, chatVars, citeVars, concVars, bootVars, ingestVars>>
    \/ ParseBegin /\ UNCHANGED <<crawlVars, chatVars, citeVars, concVars, bootVars, ingestVars>>
    \/ ParseNoHeaders /\ UNCHANGED <<crawlVars, chatVars, citeVars, concVars, bootVars, ingestVars>>
    \/ ParseHeader /\ UNCHANGED <<crawlVars, chatVars, citeVars, concVars, bootVars, ingestVars>>
    \/ ParseLoopEnd /\ UNCHANGED <<crawlVars, chatVars, citeVars, concVars, bootVars, ingestVars>>
    \/ ParseReturn /\ UNCHANGED <<crawlVars, chatVars, citeVars, concVars, bootVars, ingestVars>>

\* one call of parse_content
SpecParse == InitParse /\ [][NextParse]_vars

NextPlain ==
    \/ HtmlPlain /\ UNCHANGED <<crawlVars, chatVars, citeVars, concVars, bootVars, ingestVars>>
    \/ ParseBegin /\ UNCHANGED <<crawlVars, chatVars, citeVars, concVars, bootVars, ingestVars>>
    \/ ParseNoHeaders /\ UNCHANGED <<crawlVars, chatVars, citeVars, concVars, bootVars, ingestVars>>
    \/ ParseReturn /\ UNCHANGED <<crawlVars, chatVars, citeVars, concVars, bootVars, ingestVars>>

\* one call of parse_content on a document without h1/h2/h3
SpecPlain == InitParse /\ [][NextPlain]_vars

InitChat == IdleCrawlVars /\ IdleParseVars /\ IdleChatVars /\ IdleCiteVars /\ IdleConcVars /\ IdleBootVars /\ IdleIngestVars

NextChat ==
    \/ ChatStart /\ UNCHANGED <<crawlVars, parseVars, citeVars, concVars, bootVars, ingestVars>>
    \/ ChatGetSessionContext /\ UNCHANGED <<crawlVars, parseVars, citeVars, concVars, bootVars, ingestVars>>
    \/ ChatGetHistory /\ UNCHANGED <<crawlVars, parseVars, citeVars, concVars, bootVars, ingestVars>>
    \/ ChatGenerate /\ UNCHANGED <<crawlVars, parseVars, citeVars, concVars, bootVars, ingestVars>>
    \/ ChatSaveUser /\ UNCHANGED <<crawlVars, parseVars, citeVars, concVars, bootVars, ingestVars>>
    \/ ChatSaveAssistant /\ UNCHANGED <<crawlVars, parseVars, citeVars, concVars, bootVars, ingestVars>>
    \/ SelectionStart /\ UNCHANGED <<crawlVars, parseVars, citeVars, concVars, bootVars, ingestVars>>
    \/ SelectionGetSessionContext /\ UNCHANGED <<crawlVars, parseVars, citeVars, concVars, bootVars, ingestVars>>
    \/ SelectionUpdate /\ UNCHANGED <<crawlVars, parseVars, citeVars, concVars, bootVars, ingestVars>>

\* the chat and selection requests, one at a time
SpecChat == InitChat /\ [][NextChat]_vars

InitCite == IdleCrawlVars /\ IdleParseVars /\ IdleChatVars /\ InitCiteVars /\ IdleConcVars /\ IdleBootVars /\ IdleIngestVars

NextCite ==
    \/ CiteSource /\ UNCHANGED <<crawlVars, parseVars, chatVars, concVars, bootVars, ingestVars>>
    \/ CiteMention /\ UNCHANGED <<crawlVars, parseVars, chatVars, concVars, bootVars, ingestVars>>
    \/ CiteCall /\ UNCHANGED <<crawlVars, parseVars, chatVars, concVars, bootVars, ingestVars>>
    \/ CiteRestart /\ UNCHANGED <<crawlVars, parseVars, chatVars, concVars, bootVars, ingestVars>>

\* calls of extract_citations, in one server process or in two
SpecCite == InitCite /\ [][NextCite]_vars

InitConc == IdleCrawlVars /\ IdleParseVars /\ IdleChatVars /\ IdleCiteVars /\ IdleConcVars /\ IdleBootVars /\ IdleIngestVars

NextConc ==
    \/ ConcArrive /\ UNCHANGED <<crawlVars, parseVars, citeVars, req, faults, bootVars, ingestVars>>
    \/ \E i \in InFlight :
          ConcGetSessionContext(i) /\ UNCHANGED <<crawlVars, parseVars, citeVars, req, faults, bootVars, ingestVars>>
    \/ \E i \in InFlight :
          ConcGetHistory(i) /\ UNCHANGED <<crawlVars, parseVars, citeVars, req, faults, bootVars, ingestVars>>
    \/ \E i \in InFlight :
          ConcGenerate(i) /\ UNCHANGED <<crawlVars, parseVars, citeVars, req, faults, bootVars, ingestVars>>
    \/ \E i \in InFlight :
          ConcEnsureSession(i) /\ UNCHANGED <<crawlVars, parseVars, citeVars, req, faults, bootVars, ingestVars>>
    \/ \E i \in InFlight :
          ConcInsertMessage(i) /\ UNCHANGED <<crawlVars, parseVars, citeVars, req, faults, bootVars, ingestVars>>
    \/ \E i \in InFlight :
          ConcUpdate(i) /\ UNCHANGED <<crawlVars, parseVars, citeVars, req, faults, bootVars, ingestVars>>

\* chat and selection requests whose handlers interleave at their awaits; the services
\* and the store answer every call
SpecConc == InitConc /\ [][NextConc]_vars

InitBoot ==
    /\ IdleCrawlVars /\ IdleParseVars /\ IdleChatVars /\ IdleCiteVars /\ IdleConcVars
    /\ InitBootVars /\ IdleIngestVars

NextBoot ==
    \/ StartupEvent /\ UNCHANGED <<crawlVars, parseVars, chatVars, citeVars, concVars, ingestVars>>
    \/ ServerAccept /\ UNCHANGED <<crawlVars, parseVars, chatVars, citeVars, concVars, ingestVars>>
    \/ MainConfig /\ UNCHANGED <<crawlVars, parseVars, chatVars, citeVars, concVars, ingestVars>>
    \/ MainExtract /\ UNCHANGED <<crawlVars, parseVars, chatVars, citeVars, concVars, ingestVars>>
    \/ MainEmbed /\ UNCHANGED <<crawlVars, parseVars, chatVars, citeVars, concVars, ingestVars>>
    \/ MainStore /\ UNCHANGED <<crawlVars, parseVars, chatVars, citeVars, concVars, ingestVars>>

\* the start of one process, the server or the ingestion pipeline, in any environment
SpecBoot == InitBoot /\ [][NextBoot]_vars

InitIngest ==
    /\ IdleCrawlVars /\ IdleParseVars /\ IdleChatVars /\ IdleCiteVars /\ IdleConcVars
    /\ IdleBootVars /\ InitIngestVars

NextIngest ==
    \/ IngestChunk /\ UNCHANGED <<crawlVars, parseVars, chatVars, citeVars, concVars, bootVars>>
    \/ IngestTexts /\ UNCHANGED <<crawlVars, parseVars, chatVars, citeVars, concVars, bootVars>>
    \/ IngestEmbedBatch /\ UNCHANGED <<crawlVars, parseVars, chatVars, citeVars, concVars, bootVars>>
    \/ IngestCreateCollection /\ UNCHANGED <<crawlVars, parseVars, chatVars, citeVars, concVars, bootVars>>
    \/ IngestPoints /\ UNCHANGED <<crawlVars, parseVars, chatVars, citeVars, concVars, bootVars>>
    \/ IngestUpsert /\ UNCHANGED <<crawlVars, parseVars, chatVars, citeVars, concVars, bootVars>>

\* a run of the ingestion pipeline from its chunks on
SpecIngest == InitIngest /\ [][NextIngest]_vars

\* a crawl
SpecCrawl == InitCrawl /\ [][NextCrawl]_vars

\* a crawl whose loop keeps running: the interpreter executes the next iteration
SpecCrawlFair == SpecCrawl /\ WF_vars(NextCrawl)

-----------------------------------------------------------------------------
(* The crawl: what the claims speak of.                                    *)

PageUrls == {pages[i].url : i \in 1..Len(pages)}
NoDuplicates(q) == \A i, j \in 1..Len(q) : i # j => q[i] # q[j]

\* a relative href: not empty, not anchor-only, without a scheme
IsRelativeHref(h) == h # <<>> /\ h[1] # "#" /\ ~HasScheme(h)

\* v lies in the domain of the seed
SameDomain(v) ==
    LET pv == urlparse(v, "")
        pb == urlparse(base_url, "")
    IN pv.scheme = pb.scheme /\ pv.netloc = pb.netloc

\* v matches an excluded extension/path pattern
MatchesExcluded(v) ==
    LET lowered == Lower(v)
    IN \E i \in 1..Len(excluded_patterns) : Contains(lowered, excluded_patterns[i])

\* the URLs the anchors of page u lead to: relative hrefs resolved against u, in the
\* domain of the seed, matching no excluded pattern (nothing for a URL without content)
LinkTargets(u) ==
    IF ~IsPage(u) THEN {}
    ELSE {v \in {urljoin(u, site[u].anchors[i].href) :
                    i \in {k \in 1..Len(site[u].anchors) :
                             IsRelativeHref(site[u].anchors[k].href)}} :
            SameDomain(v) /\ ~MatchesExcluded(v)}

RECURSIVE LevelsFrom(_, _, _)
LevelsFrom(frontier, seen, acc) ==
    IF frontier = {} THEN acc
    ELSE LevelsFrom((UNION {LinkTargets(u) : u \in frontier}) \ (seen \cup frontier),
                    seen \cup frontier, Append(acc, frontier))

\* the URLs at link distance 0, 1, 2, ... from the seed, through pages whose fetch
\* returned content
Levels == LevelsFrom({base_url}, {}, <<>>)

\* the URLs reachable from the seed through pages whose fetch returned content
Reachable == LET lv == Levels IN UNION {lv[d] : d \in 1..Len(lv)}

\* the link distance of v from the seed, given the levels (1000: not reachable)
DistIn(lv, v) ==
    IF \E d \in 1..Len(lv) : v \in lv[d]
    THEN (CHOOSE d \in 1..Len(lv) : v \in lv[d]) - 1
    ELSE 1000

Dist(v) == DistIn(Levels, v)

Failed(u) == u \in DOMAIN site /\ site[u].kind # "html"

\* C1: for a finite site graph, cyclic links included, extract_all_pages terminates:
\* the queue becomes empty and the page list is returned.
C1_Terminates == <>(crawl_pc = "done" /\ urls_to_visit = <<>>)

\* C1 witness: a crawl of a site with a cycle of links between two pages has returned
C1_Witness ==
    /\ crawl_pc = "done"
    /\ \E u, v \in PageUrls : u # v /\ v \in LinkTargets(u) /\ u \in LinkTargets(v)

\* C2: every URL is fetched at most once, and no two page records hold the same url
C2_VisitedOnce ==
    /\ NoDuplicates(fetched)
    /\ NoDuplicates([i \in 1..Len(pages) |-> pages[i].url])

\* C2 witness: a URL that was queued twice, fetched once and failed: its second entry
\* is still on the queue
C2_Witness ==
    \E i \in 1..Len(urls_to_visit) :
        urls_to_visit[i] \in visited /\ Failed(urls_to_visit[i])

\* C3 as stated: on return, every non-excluded URL reached by following hrefs from the
\* seed through pages whose fetch returned content has a page record
C3_AllReachableRecorded ==
    crawl_pc = "done" =>
        LET lv == Levels
        IN \A d \in 2..Len(lv) : \A v \in lv[d] : v \in PageUrls

\* C3 amended: on return, every reachable, non-excluded URL was fetched, and has a page
\* record when its own fetch returned content
C3_ReachableWithContentRecorded ==
    crawl_pc = "done" =>
        \A v \in Reachable : ~MatchesExcluded(v) =>
            v \in DOMAIN site /\ (IsPage(v) => v \in PageUrls)

\* C3 witness: a returned crawl with a record for a page two links from the seed, that
\* a relative href resolved against the page it occurs on leads to
C3_Witness ==
    /\ crawl_pc = "done"
    /\ \E u \in PageUrls \ {base_url} : \E v \in LinkTargets(u) :
          v \in PageUrls /\ Dist(v) = 2

\* C4 as stated: no URL matching an excluded pattern is in visited or in the page list
C4_NoExcludedUrl ==
    \A u \in visited \cup PageUrls : ~MatchesExcluded(u)

\* C4 amended: no URL other than the seed that matches an excluded pattern is in
\* visited or in the page list
C4_NoExcludedLink ==
    \A u \in visited \cup PageUrls : u # base_url => ~MatchesExcluded(u)

\* C4 witness: a returned crawl of a page with an anchor to an excluded URL
C4_Witness ==
    /\ crawl_pc = "done"
    /\ \E u \in PageUrls : \E i \in 1..Len(site[u].anchors) :
          /\ IsRelativeHref(site[u].anchors[i].href)
          /\ MatchesExcluded(urljoin(u, site[u].anchors[i].href))
          /\ SameDomain(urljoin(u, site[u].anchors[i].href))

\* C5: a failed fetch does not abort the crawl: the step adds no page record, follows
\* no link (the queue is the rest of the queue) and the loop goes on
C5_FailedFetchSkipped ==
    [][(/\ crawl_pc = "loop"
        /\ urls_to_visit # <<>>
        /\ Head(urls_to_visit) \notin visited
        /\ Head(urls_to_visit) \in DOMAIN site'
        /\ site'[Head(urls_to_visit)].kind # "html")
       => (/\ pages' = pages
           /\ urls_to_visit' = Tail(urls_to_visit)
           /\ crawl_pc' = "loop")]_vars

\* C5 witness: a returned crawl in which a fetch raised, and a URL that was on the
\* queue behind it got its page record afterwards
C5_Witness ==
    /\ crawl_pc = "done"
    /\ \E i, j \in 1..Len(fetched) :
          /\ i < j
          /\ site[fetched[i]].kind = "error"
          /\ fetched[j] \in PageUrls
          /\ Dist(fetched[j]) <= Dist(fetched[i])

\* C6: breadth-first, seed first: the URLs are fetched in the order of their first
\* discovery, and never one at a greater link distance before one at a smaller
C6_BreadthFirst ==
    /\ fetched # <<>> => fetched[1] = base_url
    /\ Len(fetched) <= Len(discovered)
    /\ \A i \in 1..Len(fetched) : fetched[i] = discovered[i]
    /\ Len(fetched) >= 2 =>
          LET lv == Levels
          IN \A i \in 1..(Len(fetched) - 1) :
                DistIn(lv, fetched[i]) <= DistIn(lv, fetched[i + 1])

\* C6 witness: a returned crawl that fetched two URLs at distance 1 and then one at
\* distance 2
C6_Witness ==
    /\ crawl_pc = "done"
    /\ \E i, j, k \in 1..Len(fetched) :
          /\ i < j /\ j < k
          /\ Dist(fetched[i]) = 1 /\ Dist(fetched[j]) = 1 /\ Dist(fetched[k]) = 2

-----------------------------------------------------------------------------
(* The chunker.                                                            *)

\* the elements of a sequence
Range(s) == {s[i] : i \in DOMAIN s}

\* the last node of the subtree of i
LastOf(soup, i) == CHOOSE j \in Descendants(soup, i) : \A k \in Descendants(soup, i) : k <= j

\* the words that appear after element i in the document
WordsAfter(soup, i) ==
    {Word(j) : j \in {k \in soup.alive : k > LastOf(soup, i) /\ soup.nodes[k].word}}

RECURSIVE VisibleWords(_, _)
\* the words of html d from node i on that are not inside a script or style element
VisibleWords(d, i) ==
    IF i > Len(d) THEN <<>>
    ELSE (IF d[i].word /\ \A a \in AncestorsOrSelf(d, i) : d[a].tag \notin {"script", "style"}
          THEN <<Word(i)>> ELSE <<>>) \o VisibleWords(d, i + 1)

\* the text of the page: its words outside script and style, in document order
PageText(d) == VisibleWords(d, 1)

\* C7: as long as every header handled so far gave its chunk, so that chunk k is the
\* chunk of heading k, the content of chunk k holds no word that appears after heading
\* k + 1 in the document (the boundary half of the claim; it fails on a heading that
\* sits inside a sibling of heading k).
C7_ContentStopsAtNextHeading ==
    (headers # <<>> /\ Len(chunks) = hi - 1) =>
        \A k \in 1..Len(chunks) :
            k < Len(headers) =>
                Range(chunks[k].content) \cap WordsAfter(doc, headers[k + 1]) = {}

\* C8 as stated: a page without h1/h2/h3 gives exactly one chunk, with header_type
\* "none", header "Main Content" and the page text as content.
C8_AlwaysOneChunk ==
    (parse_pc = "done" /\ headers = <<>>) =>
        /\ Len(chunks) = 1
        /\ chunks[1].header_type = "none"
        /\ chunks[1].header = <<"Main Content">>
        /\ chunks[1].content = PageText(doc.nodes)

\* C8: a page without h1/h2/h3 whose text outside script and style is not empty gives
\* exactly one chunk, with header_type "none", header "Main Content" and that text as
\* content; a page without any such text gives no chunk.
C8_OneChunkIfText ==
    (parse_pc = "done" /\ headers = <<>>) =>
        LET text == PageText(doc.nodes)
        IN IF text # <<>>
           THEN /\ Len(chunks) = 1
                /\ chunks[1].header_type = "none"
                /\ chunks[1].header = <<"Main Content">>
                /\ chunks[1].content = text
           ELSE chunks = <<>>

\* a page with an h4, a script and a text has been parsed into its one chunk
C8_Witness ==
    /\ parse_pc = "done"
    /\ headers = <<>>
    /\ Len(chunks) = 1
    /\ \E i, j, k \in 1..Len(doc.nodes) :
          /\ doc.nodes[i].tag = "script"
          /\ doc.nodes[j].tag = "h4"
          /\ doc.nodes[k].tag = "#text" /\ doc.nodes[k].word

-----------------------------------------------------------------------------
(* The context assembler.                                                  *)

\* generate_response has assembled the context of the chat request in flight, and
\* nothing was written since the handler read the session
Assembled == req.kind = "chat" /\ req.pc = "save_user"

\* the block a part of the context belongs to
PartKind(part) ==
    CASE part = system_prompt -> "system"
      [] Head(part) \in {"USER HIGHLIGHTED TEXT (PRIMARY CONTEXT):", "[Highlighted at", "Text:"}
            -> "highlighted"
      [] Head(part) \in {"RELEVANT DOCUMENT SECTIONS:", "--- Source", "URL:", "Section:",
                         "Content:"}
            -> "retrieved"
      [] Head(part) \in {"CONVERSATION HISTORY:", "USER", "ASSISTANT"} -> "history"
      [] OTHER -> "other"

\* the place of a block in the context
KindRank(kind) ==
    CASE kind = "system" -> 1
      [] kind = "highlighted" -> 2
      [] kind = "retrieved" -> 3
      [] kind = "history" -> 4
      [] OTHER -> 5

\* the messages a context holds
MessagesOf(parts) == SelectSeq(parts, LAMBDA part : Head(part) \in {"USER", "ASSISTANT"})

\* the selections a context holds
SelectionsOf(parts) == SelectSeq(parts, LAMBDA part : Head(part) = "Text:")

\* the rows of a session in table chat_history, oldest first
SessionLog(session_id) ==
    SelectSeq(chat_history, LAMBDA row : row.session_id = session_id)

\* the n most recent elements of a list that is kept oldest first
MostRecent(s, n) == [i \in 1..n |-> s[Len(s) - n + i]]

\* the messages of the context are the n most recent rows of the log, oldest first
HoldsRecentMessages(parts, log, n) ==
    /\ \A i \in 1..(Len(log) - 1) : log[i].timestamp < log[i + 1].timestamp
    /\ MessagesOf(parts) =
          [i \in 1..n |-> <<Upper(MostRecent(log, n)[i].role), ":">> \o MostRecent(log, n)[i].content]

\* the selections of the context are the n most recent stored selections, oldest first
HoldsRecentSelections(parts, stored, n) ==
    SelectionsOf(parts) = [i \in 1..n |-> <<"Text:">> \o MostRecent(stored, n)[i].text]

\* the most parts a context holds: the prompt, 5 selections, 3 sources and 8 messages
\* with the title of their blocks
MaxParts ==
    1 + (1 + 2 * SelectionWindow) + (1 + 4 * RetrievalLimit) + (1 + HistoryWindow)

\* C9 as stated: for a session with more than 8 messages and more than 5 selections
\* the assembled context holds exactly 8 messages and exactly 5 selections, the most
\* recent ones in chronological order, and no more parts than the fixed maximum.
C9_ExactlyWindow ==
    Assembled =>
        LET log == SessionLog(req.session_id)
            stored == StoredSelections(req.session_id)
        IN (Len(log) > HistoryWindow /\ Len(stored) > SelectionWindow) =>
              /\ HoldsRecentMessages(req.context_parts, log, HistoryWindow)
              /\ HoldsRecentSelections(req.context_parts, stored, SelectionWindow)
              /\ Len(req.context_parts) <= MaxParts

\* C9: no assembled context holds more than 8 messages, more than 5 selections or
\* more parts than the fixed maximum; for a session with more than 8 messages and
\* more than 5 selections it holds exactly the 5 most recent selections, oldest first,
\* and exactly the 8 most recent messages in chronological order, unless the history
\* query failed (get_chat_history printed its error and returned []): then it holds
\* no message.
C9_WindowUnlessHistoryFailed ==
    Assembled =>
        LET log == SessionLog(req.session_id)
            stored == StoredSelections(req.session_id)
        IN /\ Len(MessagesOf(req.context_parts)) <= HistoryWindow
           /\ Len(SelectionsOf(req.context_parts)) <= SelectionWindow
           /\ Len(req.context_parts) <= MaxParts
           /\ (Len(log) > HistoryWindow /\ Len(stored) > SelectionWindow) =>
                 /\ HoldsRecentSelections(req.context_parts, stored, SelectionWindow)
                 /\ IF "Error retrieving chat history" \in req.errors
                    THEN MessagesOf(req.context_parts) = <<>>
                    ELSE HoldsRecentMessages(req.context_parts, log, HistoryWindow)

\* a context with 8 messages and 5 selections, of a session that has more of both
C9_Witness ==
    /\ Assembled
    /\ Len(SessionLog(req.session_id)) > HistoryWindow
    /\ Len(StoredSelections(req.session_id)) > SelectionWindow
    /\ Len(MessagesOf(req.context_parts)) = HistoryWindow
    /\ Len(SelectionsOf(req.context_parts)) = SelectionWindow

\* C10: the first part of every assembled context is the system prompt, no other part
\* is, and the parts of the highlighted text come before those of the retrieved
\* content, which come before those of the conversation history.
C10_SystemFirstFixedOrder ==
    req.context_parts # <<>> =>
        LET parts == req.context_parts
        IN /\ parts[1] = system_prompt
           /\ \A i \in 2..Len(parts) :
                 PartKind(parts[i]) \in {"highlighted", "retrieved", "history"}
           /\ \A i \in 1..(Len(parts) - 1) :
                 KindRank(PartKind(parts[i])) <= KindRank(PartKind(parts[i + 1]))

\* a context with all four blocks
C10_Witness ==
    /\ Assembled
    /\ \A kind \in {"system", "highlighted", "retrieved", "history"} :
          \E i \in 1..Len(req.context_parts) : PartKind(req.context_parts[i]) = kind

-----------------------------------------------------------------------------
(* The citation extractor.                                                 *)

\* the citations the arguments of the call in progress give rise to: the url of a
\* source, if the source has one and the answer holds it verbatim, and "Section: " with
\* the header of a source, if the source has one and the answer holds it in any case
CitationMatches ==
    LET rc == cite.retrieved_content
    IN {rc[i].url : i \in {k \in 1..Len(rc) :
                              rc[k].url # <<>> /\ Contains(cite.response, rc[k].url)}}
       \cup
       {<<"Section:">> \o rc[i].header :
            i \in {k \in 1..Len(rc) :
                     rc[k].header # <<>>
                     /\ Contains(Lower(cite.response), Lower(rc[k].header))}}

\* C11: the list extract_citations returns has at most 5 entries, however many urls
\* and headers matched.
C11_AtMostFive ==
    cite.pc = "returned" => Len(cite.citations) <= CitationCap

\* a call with 6 matches has returned 5 citations
C11_Witness ==
    /\ cite.pc = "returned"
    /\ Cardinality(CitationMatches) > CitationCap
    /\ Len(cite.citations) = CitationCap

\* C12: a second call of extract_citations with the same answer and the same retrieved
\* content returns the list the first call returned, the same elements in the same
\* order.
C12_SameListEveryCall ==
    cite.calls = 2 => cite.citations = cite.first

\* C13: every citation returned is a match (the url of a source that the answer holds
\* verbatim, or "Section: <header>" for a header the answer holds in any case), no
\* citation is returned twice, and when there are at most 5 matches all are returned.
C13_CitationsAreTheMatches ==
    cite.pc = "returned" =>
        /\ Range(cite.citations) \subseteq CitationMatches
        /\ NoDuplicates(cite.citations)
        /\ Cardinality(CitationMatches) <= CitationCap =>
              Range(cite.citations) = CitationMatches

\* a call has returned a url, a header that the answer holds in another case only, and
\* one citation for two sources with the same url
C13_Witness ==
    /\ cite.pc = "returned"
    /\ \E i, j \in 1..Len(cite.retrieved_content) :
          /\ i # j
          /\ cite.retrieved_content[i].url = cite.retrieved_content[j].url
          /\ cite.retrieved_content[i].url \in Range(cite.citations)
    /\ \E k \in 1..Len(cite.retrieved_content) :
          /\ (<<"Section:">> \o cite.retrieved_content[k].header) \in Range(cite.citations)
          /\ ~Contains(cite.response, cite.retrieved_content[k].header)

-----------------------------------------------------------------------------
(* The chat request, one request at a time.                                *)

\* the chat request in flight has returned its ChatResponse
ChatReturned == req.kind = "chat" /\ req.pc = "done" /\ req.status = 200

\* the row save_chat_message writes
IsRow(row, session_id, role, content) ==
    row.session_id = session_id /\ row.role = role /\ row.content = content

\* C14: a chat request that returns a response has added exactly 2 rows to
\* chat_history, the user message and then the assistant response, both under the
\* session id of the request, which is the id the client sent or, when it sent none,
\* an id that no other row has; no step of a request changes an older row or adds a
\* row under another session. (The message of a request carries the number of rows
\* the table held when it arrived, plus one.)
C14_TwoRowsUnderOwnSession ==
    /\ [](ChatReturned =>
            LET n == Len(chat_history)
            IN /\ n >= 2
               /\ req.message = <<"q", ToString(n - 1)>>
               /\ IsRow(chat_history[n - 1], req.session_id, "user", req.message)
               /\ IsRow(chat_history[n], req.session_id, "assistant", req.response)
               /\ IF req.given = "None"
                  THEN {i \in 1..n : chat_history[i].session_id = req.session_id} = {n - 1, n}
                  ELSE req.session_id = req.given)
    /\ [][LET k == Len(chat_history)
          IN /\ Len(chat_history') >= k
             /\ SubSeq(chat_history', 1, k) = chat_history
             /\ \A i \in (k + 1)..Len(chat_history') :
                   req.kind = "chat" /\ chat_history'[i].session_id = req.session_id]_vars

\* a request without session id has returned, and the table holds rows of another
\* session
C14_Witness ==
    /\ ChatReturned
    /\ req.given = "None"
    /\ \E i \in 1..Len(chat_history) : chat_history[i].session_id # req.session_id

\* the generation call of the chat request in flight raised
GenerationFailed == req.kind = "chat" /\ "Error generating response" \in req.errors

\* the retrieval of the chat request in flight raised
RetrievalFailed == req.kind = "chat" /\ "Error retrieving content" \in req.errors

\* C18: when the generation call fails, generate_response returns the apology and an
\* empty citation list and does not raise: the request goes on to save the two
\* messages, and it ends with a response unless a save fails.
C18_ApologyNoCitations ==
    GenerationFailed =>
        /\ req.response = Apology
        /\ req.citations = <<>>
        /\ req.pc \in {"save_user", "save_assistant", "done"}
        /\ req.pc = "done" => (req.status = 200 \/ req.raised = "save_chat_message")

\* a request whose generation call failed has returned, the apology is the stored
\* answer
C18_Witness ==
    /\ GenerationFailed
    /\ ChatReturned
    /\ chat_history[Len(chat_history)].content = Apology

\* C19: when the embedding call or the search fails, the context has no block of
\* retrieved content, the generation call is made all the same (the response is its
\* answer, or what generate_response makes of its failure), and the request does not
\* fail for it: it ends with a response unless a save fails.
C19_RetrievalFailureDegrades ==
    RetrievalFailed =>
        /\ req.pc \in {"save_user", "save_assistant", "done"}
        /\ req.pc = "save_user" =>
              /\ req.context_parts # <<>>
              /\ \A i \in 1..Len(req.context_parts) :
                    PartKind(req.context_parts[i]) # "retrieved"
        /\ \/ \E n \in 1..(2 * MaxChats + 2) : req.response = Answer(n)
           \/ req.response \in {NoContent, Apology}
        /\ req.pc = "done" => (req.status = 200 \/ req.raised = "save_chat_message")

\* a request whose retrieval failed has returned the answer of the generation call
C19_Witness ==
    /\ RetrievalFailed
    /\ ChatReturned
    /\ \E n \in 1..(2 * MaxChats + 2) : req.response = Answer(n)

\* C20: a failure of the read of the session context (the connection, the query) does
\* not end the request: no request ends with the exception of get_session_context.
C20_ReadFailureGivesEmptyContext ==
    req.pc = "done" => req.raised # "get_session_context"

-----------------------------------------------------------------------------
(* The requests, several at a time.                                        *)

\* the context a chat handler has assembled holds the text of a selection
ContextHoldsSelection(i, j) ==
    \E k \in 1..Len(handlers[i].context_parts) :
        handlers[i].context_parts[k] = <<"Text:">> \o handlers[j].message

\* C15: when a chat request arrives after a selection request on its session has
\* returned, the context generate_response assembles for it holds the text of that
\* selection (a run has fewer than 5 selections, so each is among the 5 most recent).
C15_CompletedSelectionInContext ==
    \A i \in 1..Len(handlers) :
        (handlers[i].kind = "chat" /\ handlers[i].pc = "ensure_user") =>
            \A j \in handlers[i].completed_before : ContextHoldsSelection(i, j)

C17_NoOrphanRow ==
    /\ \A k \in 1..Len(chat_history) : chat_history[k].session_id \in DOMAIN sessions
    /\ \A i \in 1..Len(handlers) : handlers[i].raised # "ForeignKeyViolationError"

\* the table holds rows of two sessions, written by handlers that interleaved: a
\* handler is between its two statements while the last row is another handler's
C17_Witness ==
    /\ \E k, l \in 1..Len(chat_history) :
          chat_history[k].session_id # chat_history[l].session_id
    /\ \E i \in 1..Len(handlers) :
          /\ handlers[i].pc \in {"insert_user", "insert_assistant"}
          /\ chat_history[Len(chat_history)].content \notin
                {handlers[i].message, handlers[i].response}

-----------------------------------------------------------------------------
(* Failures of the store.                                                  *)

\* the request in flight has ended
Ended == req.pc = "done"

\* the store holds the selection of the selection request in flight
SelectionStored ==
    \E k \in 1..Len(StoredSelections(req.session_id)) :
        StoredSelections(req.session_id)[k].text = req.message

\* table chat_history holds the user message of the chat request in flight
UserMessageStored ==
    \E k \in 1..Len(chat_history) :
        IsRow(chat_history[k], req.session_id, "user", req.message)

\* table chat_history holds the response of the chat request in flight
ResponseStored ==
    \E k \in 1..Len(chat_history) :
        IsRow(chat_history[k], req.session_id, "assistant", req.response)

\* C21: a write that fails ends the request with an error response (a step of
\* save_chat_message or update_session_context in which a call went wrong leaves the
\* request ended with status 500), and a request that reports success has written its
\* message and response, or its selection.
C21_WriteFailureSurfaced ==
    /\ [](/\ ChatReturned => UserMessageStored /\ ResponseStored
          /\ (req.kind = "selection" /\ Ended /\ req.status = 200) => SelectionStored
          /\ req.raised \in {"save_chat_message", "update_session_context"} =>
                Ended /\ req.status = 500)
    /\ [][(req.pc \in {"save_user", "save_assistant", "update_session_context"}
           /\ faults' > faults)
          => (req'.pc = "done" /\ req'.status = 500)]_vars

\* a selection request has ended with an error after its write failed, and the store
\* does not hold its text; an earlier chat request was written
C21_Witness ==
    /\ req.kind = "selection" /\ Ended
    /\ req.status = 500
    /\ req.raised = "update_session_context"
    /\ ~SelectionStored
    /\ chat_history # <<>>

\* C26: a chat request that ends with an error response has added no row to
\* chat_history: the table does not hold its user message.
C26_FailedChatAddsNoRow ==
    (req.kind = "chat" /\ Ended /\ req.status = 500) => ~UserMessageStored

\* C25: once every request has returned, the stored selected_texts of a session holds
\* the text of every selection request on it that returned success, exactly once.
C25_NoSelectionLost ==
    InFlight = {} =>
        \A i \in 1..Len(handlers) :
            (handlers[i].kind = "selection" /\ handlers[i].status = 200) =>
                Cardinality({k \in 1..Len(StoredSelections(handlers[i].session_id)) :
                               StoredSelections(handlers[i].session_id)[k].text
                                  = handlers[i].message}) = 1

-----------------------------------------------------------------------------
(* The start of a process.                                                 *)

\* C22: with a required configuration value missing, the server never listens and
\* never takes a request, and the ingestion pipeline runs no crawl, embedding or store
\* step.
C22_MissingConfigRefused ==
    /\ (boot.program = "server" /\ ~ServerConfigured) =>
          (boot.pc # "serving" /\ boot.accepted = {})
    /\ (boot.program = "ingest" /\ ~IngestConfigured) => boot.stages = {}

-----------------------------------------------------------------------------
(* The ingestion pipeline.                                                 *)

\* the embeddings of the batch of the last round of the embedding loop
LastBatch == Slice(ingest.all_embeddings, ingest.start, EmbedBatchSize)

\* the alternates the last call of generate_embeddings tried, in order
Tried == Tail(ingest.calls)

\* s is the beginning of t
IsPrefixOf(s, t) == Len(s) <= Len(t) /\ SubSeq(t, 1, Len(s)) = s

\* C23: when the primary embedding call of a batch has failed, for whatever reason,
\* generate_embeddings has tried alternates of fallback_models, in the order of the
\* list, and the batch has empty vectors only if it has tried them all.
C23_FallbackChainAlwaysTried ==
    (ingest.pc = "embed" /\ ingest.primary \notin {"", "ok"}) =>
        /\ Tried # <<>>
        /\ IsPrefixOf(Tried, fallback_models)
        /\ (\E k \in 1..Len(LastBatch) : LastBatch[k] = <<>>) => Tried = fallback_models

\* the embedding loop is over
Embedded == ingest.pc \in {"store", "upsert", "done", "raised"}

\* the points of the collection that belong to a chunk (chunks are counted from 1, ids
\* from 0)
StoredFor(k) == {n \in 1..Len(ingest.collection) : ingest.collection[n].id = k - 1}

\* every chunk with an embedding is in the collection once, and no other chunk is
AllStoredOnce ==
    \A k \in 1..Len(ingest.chunks) :
        Cardinality(StoredFor(k)) = IF ingest.all_embeddings[k] # <<>> THEN 1 ELSE 0

\* at no time does the collection hold an empty vector or two points of one chunk, and
\* a failed embedding batch stops nothing: the loop embeds every batch and only the
\* vector store ends a run early
NeverEmptyNeverTwice ==
    /\ \A n \in 1..Len(ingest.collection) : ingest.collection[n].vector # <<>>
    /\ \A k \in 1..Len(ingest.chunks) : Cardinality(StoredFor(k)) <= 1
    /\ ingest.raised \in {"", "create_collection", "upsert"}
    /\ Embedded => Len(ingest.all_embeddings) = Len(ingest.chunks)

PointOfItsChunk(point) ==
    /\ point.id \in 0..(Len(ingest.chunks) - 1)
    /\ point.payload = Payload(ingest.chunks[point.id + 1])
    /\ point.vector = ingest.all_embeddings[point.id + 1]
    /\ point.vector.text = ingest.chunks[point.id + 1].content

\* C27: all_embeddings grows by one entry per text of each batch, failed or not, so
\* after the loop it has one entry per chunk and entry i is empty or the vector of the
\* content of chunk i; every point pairs the payload and the vector of the chunk whose
\* index is its id, and no two points of a run have the same id.
C27_EmbeddingsAligned ==
    /\ ingest.pc = "embed" =>
          Len(ingest.all_embeddings) =
             (IF ingest.i < Len(ingest.chunks) THEN ingest.i ELSE Len(ingest.chunks))
    /\ Embedded => Len(ingest.all_embeddings) = Len(ingest.chunks)
    /\ \A k \in 1..Len(ingest.all_embeddings) :
          \/ ingest.all_embeddings[k] = <<>>
          \/ ingest.all_embeddings[k].text = ingest.chunks[k].content
    /\ \A n \in 1..Len(ingest.points) : PointOfItsChunk(ingest.points[n])
    /\ \A n \in 1..Len(ingest.collection) : PointOfItsChunk(ingest.collection[n])
    /\ \A n, m \in 1..Len(ingest.points) :
          n # m => ingest.points[n].id # ingest.points[m].id

\* the first batch failed, and the collection holds the point of a chunk of a later
\* batch under the index of that chunk
C27_Witness ==
    /\ ingest.pc = "done"
    /\ Len(ingest.chunks) > EmbedBatchSize
    /\ \A k \in 1..EmbedBatchSize : ingest.all_embeddings[k] = <<>>
    /\ \E n \in 1..Len(ingest.collection) :
          /\ ingest.collection[n].id >= EmbedBatchSize
          /\ n <= ingest.collection[n].id

====
